---- MODULE Spec2Model ----
(***************************************************************************)
(* A model of the polling / deduplication / scheduling core of the bot:    *)
(* the SQLite store (src/database), the LeetCode client's results          *)
(* (src/services/leetcode.js), the Activity Monitor, the recap and nudge   *)
(* jobs (src/services/poller.js) and the /link, /untrack and /setchannel   *)
(* commands (src/commands).  Every await of the code is a separate step,   *)
(* and the synchronous code between two awaits is one atomic action.       *)
(***************************************************************************)
EXTENDS Integers, Sequences, FiniteSets, TLC

\* ------------------------------------------------------------ universe
Members   == {"m1", "m2"}
Groups    == {"g1", "g2"}
Usernames == {"u1", "u2"}
Slugs     == {"s1", "s2"}
Channels  == {"c1"}
Statuses  == {"Accepted", "Wrong Answer"}
\* The account that submits during a run; the other one has only its history.
Submitters == {"u1"}
NULL      == "null"

\* Bounds of the model (how much work one run may start).
MaxSubs     == 1
MaxCycles   == 2
MaxLinks    == 2
MaxUnlinks  == 1
MaxSetChan  == 1
\* How many asynchronous activities (poll cycles, commands, jobs) overlap.
MaxInFlight == 2
MaxDays     == 2

\* Program constants.
DAY         == 86400
FetchLimit  == 10
LinkLimit   == 1

\* The wall clock (Unix seconds) when the model starts: shortly before a
\* midnight, so that "yesterday" and "today" both occur.
T0 == DAY - 2

\* ------------------------------------------------------------ helpers
RECURSIVE DigitsOf(_)
DigitsOf(n) == IF n < 10 THEN <<n>> ELSE Append(DigitsOf(n \div 10), n % 10)

\* The API delivers a timestamp as a decimal string (a sequence of digits).
TimestampString(n) == DigitsOf(n)

RECURSIVE ParseIntFrom(_, _, _)
ParseIntFrom(s, i, acc) ==
    IF i > Len(s) THEN acc ELSE ParseIntFrom(s, i + 1, acc * 10 + s[i])

\* Number.parseInt of a decimal string.
ParseInt(s) == ParseIntFrom(s, 1, 0)

Take(s, n) == SubSeq(s, 1, IF Len(s) < n THEN Len(s) ELSE n)

Range(s) == {s[i] : i \in 1..Len(s)}

MaxOf(S) == CHOOSE x \in S : \A y \in S : y <= x

\* A faulty watermark: the timestamp of the oldest entry of the batch.
OldestTimestamp(submissions) ==
    ParseInt(submissions[Len(submissions)].timestamp)

\* Math.max(...submissions.map(s => Number.parseInt(s.timestamp)))
MathMaxTimestamp(submissions) ==
    MaxOf({ParseInt(submissions[i].timestamp) : i \in 1..Len(submissions)})

\* ------------------------------------------------------------ state
VARIABLES
    clock,            \* wall clock, Unix seconds
    ext,              \* LeetCode: username -> submissions, newest first
    users,            \* table users, in rowid order
    guild_settings,   \* table guild_settings: guild -> log_channel_id or NULL
    solved_problems,  \* table solved_problems (the ledger)
    sink,             \* every channel.send call, in call order
    looked,           \* every client.channels.fetch call: <<guild, channel id>>
    cyc,              \* the pollAllUsers calls: cycle id -> its locals
    lnk,              \* the /link command in flight
    rcp,              \* the sendDailyRecap call in flight
    ndg,              \* the sendStreakNudge call in flight
    quota,            \* what may still be started
    calls,            \* the processUserSubmissions calls of the last step
    since,            \* <<member, guild>> -> the username it is linked to, and since when
    sched             \* the scheduler: its time zone, its latches, the jobs it started

vars == <<clock, ext, users, guild_settings, solved_problems, sink, looked,
          cyc, lnk, rcp, ndg, quota, calls, since, sched>>

Cycles == 1..MaxCycles

CyclesInFlight == {c \in Cycles : cyc[c].pc \notin {"idle", "done", "rejected"}}

InFlight ==
    Cardinality(CyclesInFlight) + (IF lnk.pc = "idle" THEN 0 ELSE 1)
        + (IF rcp.pc = "idle" THEN 0 ELSE 1) + (IF ndg.pc = "idle" THEN 0 ELSE 1)

\* ------------------------------------------------------------ LeetCode (external)
Submission(slug, ts, status) ==
    [titleSlug |-> slug, timestamp |-> TimestampString(ts), statusDisplay |-> status]

\* What the accounts had submitted before the model starts.
History(username) ==
    IF username = "u1"
    THEN <<Submission("s2", T0, "Wrong Answer"), Submission("s1", T0 - 1, "Accepted")>>
    ELSE <<Submission("s2", T0 - 2, "Accepted")>>

\* recentSubmissionList(username, limit): the newest `limit` submissions.
recentSubmissionList(E, username, limit) == Take(E[username], limit)

StartOfDay(t) == t - (t % DAY)

AcceptedOn(E, username, dayStart) ==
    \E i \in 1..Len(E[username]) :
        /\ E[username][i].statusDisplay = "Accepted"
        /\ StartOfDay(ParseInt(E[username][i].timestamp)) = dayStart

\* userCalendar.streak: the run of days with an accepted submission that ends
\* today or yesterday.
ExtStreak(E, username, now) ==
    LET today == AcceptedOn(E, username, StartOfDay(now))
        yesterday == AcceptedOn(E, username, StartOfDay(now) - DAY)
    IN  (IF today THEN 1 ELSE 0) + (IF yesterday THEN 1 ELSE 0)

\* acSubmissionNum 'All': the number of distinct problems solved.
ExtTotal(E, username) ==
    Cardinality({E[username][i].titleSlug : i \in
        {j \in 1..Len(E[username]) : E[username][j].statusDisplay = "Accepted"}})

NoProfile == [found |-> FALSE, total |-> 0, currentStreak |-> 0]

\* What getUserProfile resolves to when the request succeeds and the user exists.
getUserProfile(E, username, now) ==
    [found |-> TRUE, total |-> ExtTotal(E, username),
     currentStreak |-> ExtStreak(E, username, now)]

Difficulty(slug) == IF slug = "s1" THEN "Easy" ELSE "Hard"

\* getProblemDifficulty: the label, or null when the request fails.
getProblemDifficulty(slug, ok) == IF ok THEN Difficulty(slug) ELSE NULL

\* ------------------------------------------------------------ the store
UserRow(discordId, guildId, name, at) ==
    [discord_id |-> discordId, guild_id |-> guildId, leetcode_username |-> name,
     linked_at |-> at, last_submission_timestamp |-> 0,
     total_solved |-> 0, current_streak |-> 0]

RowIndex(U, discordId, guildId) ==
    {i \in 1..Len(U) : U[i].discord_id = discordId /\ U[i].guild_id = guildId}

HasUser(U, discordId, guildId) == RowIndex(U, discordId, guildId) # {}

getUser(U, discordId, guildId) ==
    U[CHOOSE i \in RowIndex(U, discordId, guildId) : TRUE]

\* A faulty link: a plain INSERT into a table without UNIQUE(discord_id, guild_id).
InsertUser(U, discordId, guildId, name, at) == Append(U, UserRow(discordId, guildId, name, at))

\* INSERT ... ON CONFLICT(discord_id, guild_id) DO UPDATE SET leetcode_username, linked_at
linkUser(U, discordId, guildId, name, at) ==
    IF HasUser(U, discordId, guildId)
    THEN [i \in 1..Len(U) |->
            IF i \in RowIndex(U, discordId, guildId)
            THEN [U[i] EXCEPT !.leetcode_username = name, !.linked_at = at]
            ELSE U[i]]
    ELSE Append(U, UserRow(discordId, guildId, name, at))

\* DELETE FROM users WHERE discord_id = ? AND guild_id = ?
unlinkUser(U, discordId, guildId) ==
    LET Keep(r) == ~(r.discord_id = discordId /\ r.guild_id = guildId)
    IN  SelectSeq(U, Keep)

setLogChannel(G, guildId, channelId) == [G EXCEPT ![guildId] = channelId]

getLogChannel(G, guildId) == G[guildId]

\* A faulty query: the accounts without a watermark are left out.
TrackedWithBaseline(U) ==
    LET HasBaseline(r) == r.last_submission_timestamp # 0
    IN  SelectSeq(U, HasBaseline)

\* SELECT * FROM users
getAllTrackedUsers(U) == U

\* UPDATE users SET last_submission_timestamp = ? WHERE discord_id = ? AND guild_id = ?
updateLastSubmissionTimestamp(U, discordId, guildId, timestamp) ==
    [i \in 1..Len(U) |->
        IF i \in RowIndex(U, discordId, guildId)
        THEN [U[i] EXCEPT !.last_submission_timestamp = timestamp]
        ELSE U[i]]

\* UPDATE users SET total_solved, current_streak, last_submission_timestamp
updateUserStats(U, discordId, guildId, totalSolved, streak, lastTimestamp) ==
    [i \in 1..Len(U) |->
        IF i \in RowIndex(U, discordId, guildId)
        THEN [U[i] EXCEPT !.total_solved = totalSolved, !.current_streak = streak,
                          !.last_submission_timestamp = lastTimestamp]
        ELSE U[i]]

SolvedRow(discordId, guildId, slug, difficulty, solvedAt) ==
    [discord_id |-> discordId, guild_id |-> guildId, problem_slug |-> slug,
     difficulty |-> difficulty, solved_at |-> solvedAt]

\* UNIQUE(discord_id, guild_id, problem_slug)
Conflicts(L, row) ==
    \E r \in L : /\ r.discord_id = row.discord_id
                 /\ r.guild_id = row.guild_id
                 /\ r.problem_slug = row.problem_slug

\* A faulty insert: a plain INSERT into a table without the UNIQUE constraint.
InsertAlways(L, row) == L \cup {row}

\* INSERT OR IGNORE INTO solved_problems
InsertOrIgnore(L, row) == IF Conflicts(L, row) THEN L ELSE L \cup {row}

\* A faulty save: INSERT OR REPLACE, which changes a row in every call.
saveOrReplace(L, discordId, guildId, slug, difficulty, solvedAt) ==
    LET row == SolvedRow(discordId, guildId, slug, difficulty, solvedAt)
    IN  [rows |-> {r \in L : ~Conflicts({r}, row)} \cup {row}, isNew |-> TRUE]

\* saveSolvedProblem: the table afterwards, and result.changes > 0.
saveSolvedProblem(L, discordId, guildId, slug, difficulty, solvedAt) ==
    LET after == InsertOrIgnore(L, SolvedRow(discordId, guildId, slug, difficulty, solvedAt))
    IN  [rows |-> after, isNew |-> Cardinality(after) > Cardinality(L)]

\* ------------------------------------------------------------ Activity Monitor
IdleCycle ==
    [pc |-> "idle", byUser |-> <<>>, k |-> 0, e |-> 0, submissions |-> <<>>,
     newSolves |-> <<>>, newest |-> 0, profile |-> NoProfile, j |-> 0,
     logChannelId |-> NULL, fetched |-> <<>>, loaded |-> <<>>]

RECURSIVE DistinctNames(_, _)
DistinctNames(U, seen) ==
    IF U = <<>> THEN <<>>
    ELSE IF Head(U).leetcode_username \in seen
         THEN DistinctNames(Tail(U), seen)
         ELSE <<Head(U).leetcode_username>>
                  \o DistinctNames(Tail(U), seen \cup {Head(U).leetcode_username})

\* A faulty grouping: one entry per row.
usersByRow(U) ==
    [n \in 1..Len(U) |-> [username |-> U[n].leetcode_username, entries |-> <<U[n]>>]]

\* usersByUsername: one entry per distinct leetcode_username, in the order of
\* first appearance, each with its rows in row order.
usersByUsername(U) ==
    LET names == DistinctNames(U, {})
    IN  [n \in 1..Len(names) |->
            LET Same(r) == r.leetcode_username = names[n]
            IN  [username |-> names[n], entries |-> SelectSeq(U, Same)]]

\* A faulty filter: the status of the submission is not looked at.
IsNewerSubmission(sub, lastTimestamp) == ParseInt(sub.timestamp) > lastTimestamp

\* A faulty filter: the watermark is not looked at.
AcceptedWhenever(sub, lastTimestamp) == sub.statusDisplay = "Accepted"

\* sub.statusDisplay === 'Accepted' && Number.parseInt(sub.timestamp) > lastTimestamp
IsNewSolve(sub, lastTimestamp) ==
    sub.statusDisplay = "Accepted" /\ ParseInt(sub.timestamp) > lastTimestamp

\* A faulty filter: only the newest new solve of the batch is kept.
NewestSolveOnly(submissions, lastTimestamp) ==
    LET Test(sub) == IsNewSolve(sub, lastTimestamp)
        all == SelectSeq(submissions, Test)
    IN  IF all = <<>> THEN <<>> ELSE <<all[1]>>

\* submissions.filter(sub => ...)
NewSolves(submissions, lastTimestamp) ==
    LET Test(sub) == IsNewSolve(sub, lastTimestamp)
    IN  SelectSeq(submissions, Test)

\* A faulty guard: the missing log channel is not noticed.
LogChannelNotChecked(logChannelId) == FALSE

\* if (!logChannelId) return;
NoLogChannel(logChannelId) == logChannelId = NULL

\* A faulty baseline test: no poll is taken for the first one.
NeverFirstPoll(lastTimestamp) == FALSE

\* The baseline branch: lastTimestamp === 0.
IsFirstPoll(lastTimestamp) == lastTimestamp = 0

\* A faulty call: when there are new solves to announce, the watermark is left
\* for after the notifications.
NotifyBeforeWatermark(U, G, user, submissions) ==
    LET lastTimestamp == user.last_submission_timestamp
        newSolves == NewSolves(submissions, lastTimestamp)
        returned(V) == [users |-> V, await |-> FALSE, newSolves |-> <<>>,
                        newest |-> 0, logChannelId |-> NULL]
    IN  IF submissions = <<>> THEN returned(U)
        ELSE LET newestTimestamp == MathMaxTimestamp(submissions)
                 V == updateLastSubmissionTimestamp(U, user.discord_id, user.guild_id,
                                                    newestTimestamp)
                 logChannelId == getLogChannel(G, user.guild_id)
             IN  IF IsFirstPoll(lastTimestamp) THEN returned(V)
                 ELSE IF newSolves = <<>> THEN returned(U)
                 ELSE IF NoLogChannel(logChannelId) THEN returned(V)
                 ELSE [users |-> U, await |-> TRUE, newSolves |-> newSolves,
                       newest |-> newestTimestamp, logChannelId |-> logChannelId]

\* A faulty order: the watermark is written before the filter, for every batch.
WatermarkOnEveryBatch(U, G, user, submissions) ==
    LET lastTimestamp == user.last_submission_timestamp
        newSolves == NewSolves(submissions, lastTimestamp)
        returned(V) == [users |-> V, await |-> FALSE, newSolves |-> <<>>,
                        newest |-> 0, logChannelId |-> NULL]
    IN  IF submissions = <<>> THEN returned(U)
        ELSE LET newestTimestamp == MathMaxTimestamp(submissions)
                 V == updateLastSubmissionTimestamp(U, user.discord_id, user.guild_id,
                                                    newestTimestamp)
                 logChannelId == getLogChannel(G, user.guild_id)
             IN  IF IsFirstPoll(lastTimestamp) THEN returned(V)
                 ELSE IF newSolves = <<>> THEN returned(V)
                 ELSE IF NoLogChannel(logChannelId) THEN returned(V)
                 ELSE [users |-> V, await |-> TRUE, newSolves |-> newSolves,
                       newest |-> newestTimestamp, logChannelId |-> logChannelId]

\* processUserSubmissions up to its first await (getUserProfile), or to its
\* return.  It reads the row as loaded at the start of the cycle.
processUserSubmissions(U, G, user, submissions) ==
    LET lastTimestamp == user.last_submission_timestamp
        newSolves == NewSolves(submissions, lastTimestamp)
        returned(V) == [users |-> V, await |-> FALSE, newSolves |-> <<>>,
                        newest |-> 0, logChannelId |-> NULL]
    IN  IF submissions = <<>> THEN returned(U)
        ELSE LET newestTimestamp == MathMaxTimestamp(submissions)
                 V == updateLastSubmissionTimestamp(U, user.discord_id, user.guild_id,
                                                    newestTimestamp)
                 logChannelId == getLogChannel(G, user.guild_id)
             IN  IF IsFirstPoll(lastTimestamp) THEN returned(V)
                 ELSE IF newSolves = <<>> THEN returned(U)
                 ELSE IF NoLogChannel(logChannelId) THEN returned(V)
                 ELSE [users |-> V, await |-> TRUE, newSolves |-> newSolves,
                       newest |-> newestTimestamp, logChannelId |-> logChannelId]

\* for (const user of entries) await processUserSubmissions(...), from entry e
\* on, up to the first call that suspends.
RECURSIVE RunEntries(_, _, _, _, _)
RunEntries(U, G, entries, e, submissions) ==
    IF e > Len(entries)
    THEN [users |-> U, e |-> e, await |-> FALSE, newSolves |-> <<>>, newest |-> 0,
          logChannelId |-> NULL, calls |-> <<>>]
    ELSE LET r == processUserSubmissions(U, G, entries[e], submissions)
             call == [user |-> entries[e], submissions |-> submissions,
                      awaits |-> r.await]
         IN  IF r.await
             THEN [users |-> r.users, e |-> e, await |-> TRUE, newSolves |-> r.newSolves,
                   newest |-> r.newest, logChannelId |-> r.logChannelId,
                   calls |-> <<call>>]
             ELSE LET rest == RunEntries(r.users, G, entries, e + 1, submissions)
                  IN  [rest EXCEPT !.calls = <<call>> \o @]

CurrentUser(c) == cyc[c].byUser[cyc[c].k].entries[cyc[c].e]

\* A faulty loop: processUserSubmissions is not awaited, so the loop over the
\* entries ends at once and the sleep starts.
EntriesNotAwaited(C, r) ==
    [C EXCEPT !.pc = "sleep", !.e = 0, !.newSolves = <<>>, !.newest = 0,
              !.logChannelId = NULL, !.profile = NoProfile, !.j = 0,
              !.submissions = <<>>]

\* The cycle's locals after the entries from e on have run.
AfterEntries(C, r) ==
    IF r.await
    THEN [C EXCEPT !.pc = "profile", !.e = r.e, !.newSolves = r.newSolves,
                   !.newest = r.newest, !.logChannelId = r.logChannelId,
                   !.profile = NoProfile, !.j = 0]
    ELSE [C EXCEPT !.pc = "sleep", !.e = 0, !.newSolves = <<>>, !.newest = 0,
                   !.logChannelId = NULL, !.profile = NoProfile, !.j = 0,
                   !.submissions = <<>>]

\* The next iteration of the loop over usernames: the next fetch, or the end.
NextUsername(C) ==
    IF C.k < Len(C.byUser)
    THEN [C EXCEPT !.pc = "fetch", !.k = C.k + 1, !.e = 0, !.submissions = <<>>,
                   !.fetched = Append(@, C.byUser[C.k + 1].username)]
    ELSE [IdleCycle EXCEPT !.pc = "done", !.fetched = C.fetched, !.loaded = C.loaded]

\* setTimeout / setInterval fire: pollAllUsers starts, whatever is in flight.
PollTrigger(c) ==
    /\ cyc[c].pc = "idle"
    /\ \A b \in Cycles : b < c => cyc[b].pc # "idle"
    /\ InFlight < MaxInFlight
    /\ quota.cycles > 0
    /\ quota' = [quota EXCEPT !.cycles = @ - 1]
    /\ LET all == getAllTrackedUsers(users)
           grouped == usersByUsername(all)
           started == [IdleCycle EXCEPT !.byUser = grouped,
                          !.loaded = [n \in 1..Len(all) |-> all[n].leetcode_username]]
       IN  cyc' = [cyc EXCEPT ![c] =
                     IF Len(all) = 0 THEN [IdleCycle EXCEPT !.pc = "done"]
                     ELSE NextUsername(started)]
    /\ calls' = <<>>
    /\ UNCHANGED <<clock, ext, users, guild_settings, solved_problems, sink, looked,
                   lnk, rcp, ndg, since>>
    /\ UNCHANGED sched

\* getRecentSubmissions(username, 10) resolves: every entry of the username is
\* processed, up to the first one that awaits.
SubmissionsArrive(c) ==
    /\ cyc[c].pc = "fetch"
    /\ LET C == cyc[c]
           submissions == recentSubmissionList(ext, C.byUser[C.k].username, FetchLimit)
           r == RunEntries(users, guild_settings, C.byUser[C.k].entries, 1, submissions)
       IN  /\ users' = r.users
           /\ calls' = r.calls
           /\ cyc' = [cyc EXCEPT ![c] = AfterEntries([C EXCEPT !.submissions = submissions], r)]
    /\ UNCHANGED <<clock, ext, guild_settings, solved_problems, sink, looked, lnk, rcp, ndg, quota, since>>
    /\ UNCHANGED sched

\* A faulty catch: the error ends the cycle.
AbortCycle(C) == [IdleCycle EXCEPT !.pc = "done", !.fetched = C.fetched, !.loaded = C.loaded]

\* catch (error) { console.error(...) } inside the loop over usernames: the
\* loop goes on with the next username.
AfterFetchError(C) == NextUsername(C)

\* getRecentSubmissions throws: the catch logs, and the loop goes on (the sleep
\* is inside the try, so it is skipped).
SubmissionsFail(c) ==
    /\ cyc[c].pc = "fetch"
    /\ cyc' = [cyc EXCEPT ![c] = AfterFetchError(cyc[c])]
    /\ calls' = <<>>
    /\ UNCHANGED <<clock, ext, users, guild_settings, solved_problems, sink, looked,
                   lnk, rcp, ndg, quota, since>>
    /\ UNCHANGED sched

\* await sleep(REQUEST_DELAY) is over.
SleepDone(c) ==
    /\ cyc[c].pc = "sleep"
    /\ cyc' = [cyc EXCEPT ![c] = NextUsername(cyc[c])]
    /\ calls' = <<>>
    /\ UNCHANGED <<clock, ext, users, guild_settings, solved_problems, sink, looked,
                   lnk, rcp, ndg, quota, since>>
    /\ UNCHANGED sched

\* A faulty catch: without a profile the call ends, and the remaining accounts
\* of the username with it.
AnnounceOnlyWithProfile(C, profile) ==
    IF profile.found THEN [C EXCEPT !.pc = "channel", !.profile = profile]
    ELSE [C EXCEPT !.pc = "sleep"]

\* let profile = null; try { profile = await getUserProfile(...) } catch {}:
\* with or without a profile, the call goes on to the announcement.
AfterProfile(C, profile) == [C EXCEPT !.pc = "channel", !.profile = profile]

\* getUserProfile resolves (a profile, or null) or throws; then
\* client.channels.fetch(logChannelId) is called.
ProfileArrives(c, outcome) ==
    /\ cyc[c].pc = "profile"
    /\ LET C == cyc[c]
           user == CurrentUser(c)
           profile == IF outcome = "ok"
                      THEN getUserProfile(ext, user.leetcode_username, clock)
                      ELSE NoProfile
       IN  /\ users' = IF profile.found
                       THEN updateUserStats(users, user.discord_id, user.guild_id,
                                            profile.total, profile.currentStreak, C.newest)
                       ELSE users
           /\ looked' = looked \cup {<<user.guild_id, C.logChannelId>>}
           /\ cyc' = [cyc EXCEPT ![c] = AfterProfile(C, profile)]
    /\ calls' = <<>>
    /\ UNCHANGED <<clock, ext, guild_settings, solved_problems, sink, lnk, rcp, ndg, quota, since>>
    /\ UNCHANGED sched

\* The rest of the username's entries, after the current call has returned.
ResumeEntries(c) ==
    LET C == cyc[c]
        r == RunEntries(users, guild_settings, C.byUser[C.k].entries, C.e + 1, C.submissions)
    IN  /\ users' = r.users
        /\ calls' = r.calls
        /\ cyc' = [cyc EXCEPT ![c] = AfterEntries(C, r)]

\* client.channels.fetch resolves to the channel: the loop over newSolves
\* starts with its first getProblemDifficulty.
ChannelArrives(c) ==
    /\ cyc[c].pc = "channel"
    /\ cyc' = [cyc EXCEPT ![c] = [cyc[c] EXCEPT !.pc = "difficulty", !.j = 1]]
    /\ calls' = <<>>
    /\ UNCHANGED <<clock, ext, users, guild_settings, solved_problems, sink, looked,
                   lnk, rcp, ndg, quota, since>>
    /\ UNCHANGED sched

\* A faulty catch: the error of the announcement leaves the call, and the catch
\* of the loop over usernames takes it.
AnnounceErrorEscapes(c) ==
    /\ cyc' = [cyc EXCEPT ![c] = AfterFetchError(cyc[c])]
    /\ calls' = <<>>
    /\ UNCHANGED users

\* catch (error) { console.error(...) } around the announcement: the call
\* returns normally, and the loop over the username's entries goes on.
AfterAnnounceError(c) == ResumeEntries(c)

\* client.channels.fetch resolves to nothing, or throws: the call returns.
ChannelFails(c) ==
    /\ cyc[c].pc = "channel"
    /\ AfterAnnounceError(c)
    /\ UNCHANGED <<clock, ext, guild_settings, solved_problems, sink, looked, lnk, rcp, ndg, quota, since>>
    /\ UNCHANGED sched

VictoryMessage(channelId, user, solve) ==
    [kind |-> "victory", channel |-> channelId, guild_id |-> user.guild_id,
     discord_id |-> user.discord_id, slug |-> solve.titleSlug,
     username |-> user.leetcode_username, solved_at |-> ParseInt(solve.timestamp),
     lines |-> <<>>]

\* if (!isNew) continue;
ShouldAnnounce(isNew) == isNew

\* getProblemDifficulty resolves (ok or not): the solve is saved, and announced
\* when the insert was new.
DifficultyArrives(c, ok) ==
    /\ cyc[c].pc = "difficulty"
    /\ LET C == cyc[c]
           user == CurrentUser(c)
           solve == C.newSolves[C.j]
           difficulty == getProblemDifficulty(solve.titleSlug, ok)
           saved == saveSolvedProblem(solved_problems, user.discord_id, user.guild_id,
                                      solve.titleSlug, difficulty, ParseInt(solve.timestamp))
       IN  /\ solved_problems' = saved.rows
           /\ IF ShouldAnnounce(saved.isNew)
              THEN /\ sink' = Append(sink, VictoryMessage(C.logChannelId, user, solve))
                   /\ cyc' = [cyc EXCEPT ![c] = [C EXCEPT !.pc = "send"]]
                   /\ calls' = <<>>
                   /\ UNCHANGED users
              ELSE IF C.j < Len(C.newSolves)
              THEN /\ cyc' = [cyc EXCEPT ![c] = [C EXCEPT !.j = C.j + 1]]
                   /\ calls' = <<>>
                   /\ UNCHANGED <<sink, users>>
              ELSE /\ ResumeEntries(c)
                   /\ UNCHANGED sink
    /\ UNCHANGED <<clock, ext, guild_settings, looked, lnk, rcp, ndg, quota, since>>
    /\ UNCHANGED sched

\* channel.send resolves: the next solve, or the end of the call.
SendDone(c) ==
    /\ cyc[c].pc = "send"
    /\ IF cyc[c].j < Len(cyc[c].newSolves)
       THEN /\ cyc' = [cyc EXCEPT ![c] = [cyc[c] EXCEPT !.pc = "difficulty", !.j = @ + 1]]
            /\ calls' = <<>>
            /\ UNCHANGED users
       ELSE ResumeEntries(c)
    /\ UNCHANGED <<clock, ext, guild_settings, solved_problems, sink, looked, lnk, rcp, ndg, quota, since>>
    /\ UNCHANGED sched

\* channel.send throws: the catch ends the call, the later solves are dropped.
SendFails(c) ==
    /\ cyc[c].pc = "send"
    /\ AfterAnnounceError(c)
    /\ UNCHANGED <<clock, ext, guild_settings, solved_problems, sink, looked, lnk, rcp, ndg, quota, since>>
    /\ UNCHANGED sched

\* getAllTrackedUsers() throws at the start of pollAllUsers, before the loop and
\* its try: the promise of pollAllUsers is rejected, and the timer callback
\* that called it holds no handler for it.
LoadFails(c) ==
    /\ cyc[c].pc = "idle"
    /\ \A b \in Cycles : b < c => cyc[b].pc # "idle"
    /\ InFlight < MaxInFlight
    /\ quota.cycles > 0
    /\ quota' = [quota EXCEPT !.cycles = @ - 1]
    /\ cyc' = [cyc EXCEPT ![c] = [IdleCycle EXCEPT !.pc = "rejected"]]
    /\ calls' = <<>>
    /\ UNCHANGED <<clock, ext, users, guild_settings, solved_problems, sink, looked,
                   lnk, rcp, ndg, since>>
    /\ UNCHANGED sched

\* The awaits of a cycle behind graphqlRequest.
ExternalCalls == {"fetch", "profile", "difficulty"}

\* The fetch of graphqlRequest gets no response: it has no timeout and no abort
\* signal, so its promise never settles and the cycle stays at its await.
CallNeverResponds(c) ==
    /\ cyc[c].pc \in ExternalCalls
    /\ cyc' = [cyc EXCEPT ![c] = [cyc[c] EXCEPT !.pc = "hung"]]
    /\ calls' = <<>>
    /\ UNCHANGED <<clock, ext, users, guild_settings, solved_problems, sink, looked,
                   lnk, rcp, ndg, quota, since>>
    /\ UNCHANGED sched

\* ------------------------------------------------------------ recap and nudge
\* client.guilds.cache, in its iteration order.
GuildCache == <<"g1", "g2">>

\* new Date(y, m, d).getTime() / 1000 of the current day.
StartOfToday(now) == StartOfDay(now)

\* A faulty window: the first second of today is counted with yesterday.
RowsUpToToday(L, guildId, now) ==
    {r \in L : /\ r.guild_id = guildId
               /\ r.solved_at >= StartOfToday(now) - DAY
               /\ r.solved_at <= StartOfToday(now)}

\* WHERE guild_id = ? AND solved_at >= startOfYesterday AND solved_at < startOfToday
YesterdayRows(L, guildId, now) ==
    {r \in L : /\ r.guild_id = guildId
               /\ r.solved_at >= StartOfToday(now) - DAY
               /\ r.solved_at < StartOfToday(now)}

YesterdayCount(L, guildId, now, discordId) ==
    Cardinality({r \in YesterdayRows(L, guildId, now) : r.discord_id = discordId})

RecapLimit == 10

\* GROUP BY discord_id ORDER BY count DESC, for the members of S.  The order of
\* members with equal counts is not fixed by the query: every order is a
\* possible result.
RECURSIVE SolversByCount(_, _, _, _)
SolversByCount(L, guildId, now, S) ==
    IF S = {} THEN {<<>>}
    ELSE LET best == {d \in S : \A x \in S : YesterdayCount(L, guildId, now, d)
                                                 >= YesterdayCount(L, guildId, now, x)}
         IN  UNION {{<<[discord_id |-> d, count |-> YesterdayCount(L, guildId, now, d)]>> \o rest :
                        rest \in SolversByCount(L, guildId, now, S \ {d})} : d \in best}

\* getYesterdaySolvers: GROUP BY discord_id ORDER BY count DESC LIMIT 10.
getYesterdaySolvers(L, guildId, now) ==
    LET solvers == {r.discord_id : r \in YesterdayRows(L, guildId, now)}
    IN  {Take(q, RecapLimit) : q \in SolversByCount(L, guildId, now, solvers)}

\* getTodaySolveCount: COUNT(*) WHERE discord_id, guild_id, solved_at >= startOfToday
getTodaySolveCount(L, discordId, guildId, now) ==
    Cardinality({r \in L : /\ r.discord_id = discordId
                           /\ r.guild_id = guildId
                           /\ r.solved_at >= StartOfToday(now)})

\* getGuildUsers: WHERE guild_id = ? ORDER BY linked_at DESC; rows linked in the
\* same second come in any order.
getGuildUsers(U, guildId) ==
    LET InGuild(r) == r.guild_id = guildId
        rows == SelectSeq(U, InGuild)
        n == Len(rows)
    IN  {[i \in 1..n |-> rows[q[i]]] : q \in
            {q \in [1..n -> 1..n] :
                /\ \A i, k \in 1..n : i # k => q[i] # q[k]
                /\ \A i \in 1..n : \A k \in i..n :
                       rows[q[i]].linked_at >= rows[q[k]].linked_at}}

IdleRecap == [pc |-> "idle", gi |-> 0, logChannelId |-> NULL, topSolvers |-> <<>>]

\* if (!logChannelId) continue;  (sendDailyRecap and sendStreakNudge)
JobSkipsGuild(logChannelId) == logChannelId = NULL

\* The guilds from index i on that sendDailyRecap does not skip.
RECURSIVE RecapNextGuild(_, _, _, _)
RecapNextGuild(G, L, now, i) ==
    IF i > Len(GuildCache) THEN 0
    ELSE IF /\ ~JobSkipsGuild(getLogChannel(G, GuildCache[i]))
            /\ YesterdayRows(L, GuildCache[i], now) # {}
         THEN i
         ELSE RecapNextGuild(G, L, now, i + 1)

\* The loop of sendDailyRecap from guild i on, up to its next await
\* (client.channels.fetch) or its end.
RecapFrom(i) ==
    LET gi == RecapNextGuild(guild_settings, solved_problems, clock, i)
    IN  IF gi = 0
        THEN /\ rcp' = IdleRecap
             /\ UNCHANGED looked
        ELSE \E top \in getYesterdaySolvers(solved_problems, GuildCache[gi], clock) :
                /\ rcp' = [pc |-> "channel", gi |-> gi, topSolvers |-> top,
                           logChannelId |-> getLogChannel(guild_settings, GuildCache[gi])]
                /\ looked' = looked \cup
                       {<<GuildCache[gi], getLogChannel(guild_settings, GuildCache[gi])>>}

\* The scheduler's tick starts sendDailyRecap.
RecapStart ==
    /\ rcp.pc = "idle"
    /\ quota.recaps > 0
    /\ InFlight < MaxInFlight
    /\ quota' = [quota EXCEPT !.recaps = @ - 1]
    /\ RecapFrom(1)
    /\ calls' = <<>>
    /\ UNCHANGED <<clock, ext, users, guild_settings, solved_problems, sink, cyc, lnk,
                   ndg, since>>
    /\ UNCHANGED sched

\* client.channels.fetch resolves to the channel: the embed is sent.
RecapChannelArrives ==
    /\ rcp.pc = "channel"
    /\ sink' = Append(sink,
          [kind |-> "recap", channel |-> rcp.logChannelId, guild_id |-> GuildCache[rcp.gi],
           discord_id |-> NULL, slug |-> NULL, username |-> NULL, solved_at |-> 0,
           lines |-> rcp.topSolvers])
    /\ rcp' = [rcp EXCEPT !.pc = "send"]
    /\ calls' = <<>>
    /\ UNCHANGED <<clock, ext, users, guild_settings, solved_problems, looked, cyc, lnk,
                   ndg, quota, since>>
    /\ UNCHANGED sched

\* client.channels.fetch resolves to nothing or throws, or channel.send settles
\* (resolves, or throws into the catch): the next guild.
RecapGuildDone ==
    /\ rcp.pc \in {"channel", "send"}
    /\ RecapFrom(rcp.gi + 1)
    /\ calls' = <<>>
    /\ UNCHANGED <<clock, ext, users, guild_settings, solved_problems, sink, cyc, lnk,
                   ndg, quota, since>>
    /\ UNCHANGED sched

IdleNudge ==
    [pc |-> "idle", gi |-> 0, guildUsers |-> <<>>, ui |-> 0,
     checked |-> [u \in Usernames |-> NoProfile], atRisk |-> <<>>, logChannelId |-> NULL]

\* A faulty test: a streak of 0 is not skipped.
SkipsOnlyMissing(profile) == ~profile.found

\* if (!profile || profile.currentStreak === 0) continue;
NudgeSkipsUser(profile) == ~profile.found \/ profile.currentStreak = 0

\* The body of the loop over guildUsers after the profile is known.
NudgeEvaluate(N, L, now, profile) ==
    LET user == N.guildUsers[N.ui]
    IN  IF NudgeSkipsUser(profile) THEN N
        ELSE IF getTodaySolveCount(L, user.discord_id, GuildCache[N.gi], now) = 0
             THEN [N EXCEPT !.atRisk = Append(@, [discordId |-> user.discord_id,
                                                   streak |-> profile.currentStreak])]
             ELSE N

\* The loop over guildUsers from user ui on, up to the next getUserProfile call
\* or the end of the loop.  checked holds a profile, or NoProfile for both a
\* missing entry and a stored false (the code treats them alike: !profile).
RECURSIVE NudgeUsersFrom(_, _, _)
NudgeUsersFrom(N, L, now) ==
    IF N.ui > Len(N.guildUsers) THEN [N EXCEPT !.pc = "users-done"]
    ELSE LET profile == N.checked[N.guildUsers[N.ui].leetcode_username]
         IN  IF ~profile.found THEN [N EXCEPT !.pc = "profile"]
             ELSE NudgeUsersFrom([NudgeEvaluate(N, L, now, profile) EXCEPT !.ui = @ + 1],
                                 L, now)

RECURSIVE NudgeNextGuild(_, _, _)
NudgeNextGuild(G, U, i) ==
    IF i > Len(GuildCache) THEN 0
    ELSE IF /\ ~JobSkipsGuild(getLogChannel(G, GuildCache[i]))
            /\ \E n \in 1..Len(U) : U[n].guild_id = GuildCache[i]
         THEN i
         ELSE NudgeNextGuild(G, U, i + 1)

\* The loop of sendStreakNudge over the guilds from guild i on, up to its next
\* await or its end.  (A guild whose users all come from the cache and leave
\* nobody at risk is passed in the same step.)
NudgeGuildsFrom(i) ==
    LET gi == NudgeNextGuild(guild_settings, users, i)
    IN  IF gi = 0
        THEN /\ ndg' = IdleNudge
             /\ UNCHANGED looked
        ELSE \E rows \in getGuildUsers(users, GuildCache[gi]) :
               LET N == NudgeUsersFrom(
                           [IdleNudge EXCEPT !.gi = gi, !.guildUsers = rows, !.ui = 1,
                              !.logChannelId = getLogChannel(guild_settings, GuildCache[gi])],
                           solved_problems, clock)
               IN  /\ ndg' = N   \* the first user always needs a profile
                   /\ UNCHANGED looked

\* A faulty loop end: the alert is sent whether or not somebody is at risk.
AlertsEveryGuild(N) ==
    IF N.pc = "users-done"
    THEN /\ ndg' = [N EXCEPT !.pc = "channel"]
         /\ looked' = looked \cup {<<GuildCache[N.gi], N.logChannelId>>}
    ELSE /\ ndg' = N
         /\ UNCHANGED looked

\* After the loop over guildUsers: the alert is sent, or the guild is passed.
NudgeAfterUsers(N) ==
    IF N.pc = "users-done"
    THEN IF N.atRisk = <<>>
         THEN NudgeGuildsFrom(N.gi + 1)
         ELSE /\ ndg' = [N EXCEPT !.pc = "channel"]
              /\ looked' = looked \cup {<<GuildCache[N.gi], N.logChannelId>>}
    ELSE /\ ndg' = N
         /\ UNCHANGED looked

\* The scheduler's tick starts sendStreakNudge.
NudgeStart ==
    /\ ndg.pc = "idle"
    /\ quota.nudges > 0
    /\ InFlight < MaxInFlight
    /\ quota' = [quota EXCEPT !.nudges = @ - 1]
    /\ NudgeGuildsFrom(1)
    /\ calls' = <<>>
    /\ UNCHANGED <<clock, ext, users, guild_settings, solved_problems, sink, cyc, lnk,
                   rcp, since>>
    /\ UNCHANGED sched

\* getUserProfile resolves to a profile or to null: checked.set, then sleep(1000).
NudgeProfileArrives(found) ==
    /\ ndg.pc = "profile"
    /\ LET name == ndg.guildUsers[ndg.ui].leetcode_username
           profile == IF found THEN getUserProfile(ext, name, clock) ELSE NoProfile
       IN  ndg' = [ndg EXCEPT !.pc = "sleep", !.checked[name] = profile]
    /\ calls' = <<>>
    /\ UNCHANGED <<clock, ext, users, guild_settings, solved_problems, sink, looked, cyc,
                   lnk, rcp, quota, since>>
    /\ UNCHANGED sched

\* getUserProfile throws: checked.set(name, false); continue.
NudgeProfileFails ==
    /\ ndg.pc = "profile"
    /\ LET name == ndg.guildUsers[ndg.ui].leetcode_username
           N == [ndg EXCEPT !.checked[name] = NoProfile, !.ui = @ + 1]
       IN  NudgeAfterUsers(NudgeUsersFrom(N, solved_problems, clock))
    /\ calls' = <<>>
    /\ UNCHANGED <<clock, ext, users, guild_settings, solved_problems, sink, cyc, lnk,
                   rcp, quota, since>>
    /\ UNCHANGED sched

\* sleep(1000) is over: the user is evaluated with the profile just fetched.
NudgeSleepDone ==
    /\ ndg.pc = "sleep"
    /\ LET name == ndg.guildUsers[ndg.ui].leetcode_username
           N == [NudgeEvaluate(ndg, solved_problems, clock, ndg.checked[name])
                    EXCEPT !.ui = @ + 1]
       IN  NudgeAfterUsers(NudgeUsersFrom(N, solved_problems, clock))
    /\ calls' = <<>>
    /\ UNCHANGED <<clock, ext, users, guild_settings, solved_problems, sink, cyc, lnk,
                   rcp, quota, since>>
    /\ UNCHANGED sched

\* client.channels.fetch resolves to the channel: the alert is sent.
NudgeChannelArrives ==
    /\ ndg.pc = "channel"
    /\ sink' = Append(sink,
          [kind |-> "nudge", channel |-> ndg.logChannelId, guild_id |-> GuildCache[ndg.gi],
           discord_id |-> NULL, slug |-> NULL, username |-> NULL, solved_at |-> 0,
           lines |-> ndg.atRisk])
    /\ ndg' = [ndg EXCEPT !.pc = "send"]
    /\ calls' = <<>>
    /\ UNCHANGED <<clock, ext, users, guild_settings, solved_problems, looked, cyc, lnk,
                   rcp, quota, since>>
    /\ UNCHANGED sched

\* client.channels.fetch resolves to nothing or throws, or channel.send settles:
\* the next guild.
NudgeGuildDone ==
    /\ ndg.pc \in {"channel", "send"}
    /\ NudgeGuildsFrom(ndg.gi + 1)
    /\ calls' = <<>>
    /\ UNCHANGED <<clock, ext, users, guild_settings, solved_problems, sink, cyc, lnk,
                   rcp, quota, since>>
    /\ UNCHANGED sched

\* ------------------------------------------------------------ scheduler
HOUR == 3600

\* setInterval(..., 60 * 1000), in seconds
TickPeriod == 60

\* let lastRecapDate = null
NoDate == -1

\* The time zone of the process, in hours east of UTC.
Offsets == {-3, 0, 10}

\* now.toISOString().split('T')[0]: the calendar date in UTC, as a day number.
ISODate(now) == now \div DAY

\* now.getHours(): the hour of the day in the time zone of the process.
getHours(now, offset) == ((now + offset * HOUR) % DAY) \div HOUR

\* The calendar date in the time zone of the process, as a day number.
LocalDate(now, offset) == (now + offset * HOUR) \div DAY

\* A faulty window: it opens an hour early.
FromEightToNoon(hours) == hours >= 8 /\ hours < 12

\* now.getHours() >= 9 && now.getHours() < 12
InRecapWindow(hours) == hours >= 9 /\ hours < 12

\* now.getHours() >= 20 && now.getHours() < 23
InNudgeWindow(hours) == hours >= 20 /\ hours < 23

\* The closure of startScheduler, and the local dates of the job starts.
IdleSched ==
    [offset |-> 0, lastRecapDate |-> NoDate, lastNudgeDate |-> NoDate,
     recaps |-> <<>>, nudges |-> <<>>]

\* The scheduler is followed up to the end of day MaxDays.
SchedulerEnd == MaxDays * DAY

\* The callback of the scheduler's setInterval, one TickPeriod after the last:
\* the latches are compared with the UTC date, the windows with the local hour,
\* and the job is called without being awaited (it runs to its first await).
\* The two windows do not meet, so at most one job starts in a tick.
Tick ==
    /\ clock + TickPeriod < SchedulerEnd
    /\ rcp.pc = "idle"
    /\ ndg.pc = "idle"
    /\ clock' = clock + TickPeriod
    /\ LET now == clock + TickPeriod
           today == ISODate(now)
           hours == getHours(now, sched.offset)
           recap == InRecapWindow(hours) /\ sched.lastRecapDate # today
           nudge == InNudgeWindow(hours) /\ sched.lastNudgeDate # today
       IN  /\ sched' = [sched EXCEPT
                 !.lastRecapDate = IF recap THEN today ELSE @,
                 !.lastNudgeDate = IF nudge THEN today ELSE @,
                 !.recaps = IF recap THEN Append(@, LocalDate(now, sched.offset)) ELSE @,
                 !.nudges = IF nudge THEN Append(@, LocalDate(now, sched.offset)) ELSE @]
           /\ IF recap THEN RecapFrom(1) /\ UNCHANGED ndg
              ELSE IF nudge THEN NudgeGuildsFrom(1) /\ UNCHANGED rcp
              ELSE UNCHANGED <<rcp, ndg, looked>>
    /\ calls' = <<>>
    /\ UNCHANGED <<ext, users, guild_settings, solved_problems, sink, cyc, lnk, quota, since>>

\* ------------------------------------------------------------ commands
IdleLink == [pc |-> "idle", discord_id |-> NULL, guild_id |-> NULL, username |-> NULL]

NotLinked == [username |-> NULL, at |-> 0]

\* /link, up to its second await: getUser, getUserProfile(username) resolves to a
\* profile, linkUser, and getRecentSubmissions(username, 1) is called.  (Nothing
\* read before the profile arrives is used afterwards but in the reply.)
LinkProfileArrives(discordId, guildId, username) ==
    /\ lnk.pc = "idle"
    /\ quota.links > 0
    /\ InFlight < MaxInFlight
    /\ users' = linkUser(users, discordId, guildId, username, clock)
    /\ since' = [since EXCEPT ![<<discordId, guildId>>] =
                    IF @.username = username THEN @
                    ELSE [username |-> username, at |-> clock]]
    /\ lnk' = [pc |-> "recent", discord_id |-> discordId, guild_id |-> guildId,
               username |-> username]
    /\ quota' = [quota EXCEPT !.links = @ - 1]
    /\ calls' = <<>>
    /\ UNCHANGED <<clock, ext, guild_settings, solved_problems, sink, looked, cyc,
                   rcp, ndg>>
    /\ UNCHANGED sched

\* getRecentSubmissions(username, 1) resolves: the watermark is set to the
\* timestamp of recent[0], when there is one.
LinkRecentArrives ==
    /\ lnk.pc = "recent"
    /\ LET recent == recentSubmissionList(ext, lnk.username, LinkLimit)
       IN  users' = IF Len(recent) > 0
                    THEN updateLastSubmissionTimestamp(users, lnk.discord_id, lnk.guild_id,
                                                       ParseInt(recent[1].timestamp))
                    ELSE users
    /\ lnk' = IdleLink
    /\ calls' = <<>>
    /\ UNCHANGED <<clock, ext, guild_settings, solved_problems, sink, looked, cyc,
                   rcp, ndg, quota, since>>
    /\ UNCHANGED sched

\* getRecentSubmissions throws: non-critical, the watermark is left as it is.
LinkRecentFails ==
    /\ lnk.pc = "recent"
    /\ lnk' = IdleLink
    /\ calls' = <<>>
    /\ UNCHANGED <<clock, ext, users, guild_settings, solved_problems, sink, looked,
                   cyc, rcp, ndg, quota, since>>
    /\ UNCHANGED sched

\* A faulty /untrack: the solves of the member in the guild are deleted with
\* the link.
UntrackWithHistory(discordId, guildId) ==
    /\ quota.unlinks > 0
    /\ HasUser(users, discordId, guildId)
    /\ users' = unlinkUser(users, discordId, guildId)
    /\ solved_problems' = {r \in solved_problems :
                              ~(r.discord_id = discordId /\ r.guild_id = guildId)}
    /\ since' = [since EXCEPT ![<<discordId, guildId>>] = NotLinked]
    /\ quota' = [quota EXCEPT !.unlinks = @ - 1]
    /\ calls' = <<>>
    /\ UNCHANGED <<clock, ext, guild_settings, sink, looked, cyc, lnk, rcp, ndg, sched>>

\* /untrack of a tracked member: unlinkUser.
Untrack(discordId, guildId) ==
    /\ quota.unlinks > 0
    /\ HasUser(users, discordId, guildId)
    /\ users' = unlinkUser(users, discordId, guildId)
    /\ since' = [since EXCEPT ![<<discordId, guildId>>] = NotLinked]
    /\ quota' = [quota EXCEPT !.unlinks = @ - 1]
    /\ calls' = <<>>
    /\ UNCHANGED <<clock, ext, guild_settings, solved_problems, sink, looked, cyc, lnk,
                   rcp, ndg>>
    /\ UNCHANGED sched

\* /setchannel: setLogChannel.
SetChannel(guildId, channelId) ==
    /\ quota.setchan > 0
    /\ guild_settings' = setLogChannel(guild_settings, guildId, channelId)
    /\ quota' = [quota EXCEPT !.setchan = @ - 1]
    /\ calls' = <<>>
    /\ UNCHANGED <<clock, ext, users, solved_problems, sink, looked, cyc, lnk, rcp, ndg,
                   since>>
    /\ UNCHANGED sched

\* ------------------------------------------------------------ environment
\* A LeetCode user submits a solution; a second passes.
Submit(username, slug, status) ==
    /\ quota.subs > 0
    /\ quota' = [quota EXCEPT !.subs = @ - 1]
    /\ clock' = clock + 1
    /\ ext' = [ext EXCEPT ![username] = <<Submission(slug, clock + 1, status)>> \o @]
    /\ calls' = <<>>
    /\ UNCHANGED <<users, guild_settings, solved_problems, sink, looked, cyc, lnk,
                   rcp, ndg, since>>
    /\ UNCHANGED sched

\* ------------------------------------------------------------ specification
InitTables ==
    /\ users = <<>>
    /\ guild_settings = [g \in Groups |-> NULL]
    /\ solved_problems = {}
    /\ sink = <<>>
    /\ looked = {}
    /\ cyc = [c \in Cycles |-> IdleCycle]
    /\ lnk = IdleLink
    /\ rcp = IdleRecap
    /\ ndg = IdleNudge
    /\ calls = <<>>
    /\ since = [a \in Members \X Groups |-> NotLinked]

InitStore ==
    /\ clock = T0
    /\ ext = [u \in Usernames |-> History(u)]
    /\ InitTables
    /\ sched = IdleSched

Init ==
    /\ InitStore
    /\ quota = [cycles |-> MaxCycles, links |-> MaxLinks, unlinks |-> MaxUnlinks,
                setchan |-> MaxSetChan, subs |-> MaxSubs, recaps |-> 0, nudges |-> 0]

Monitor ==
    \E c \in Cycles :
        \/ PollTrigger(c)
        \/ SubmissionsArrive(c)
        \/ SubmissionsFail(c)
        \/ SleepDone(c)
        \/ \E outcome \in {"ok", "null", "fail"} : ProfileArrives(c, outcome)
        \/ ChannelArrives(c)
        \/ ChannelFails(c)
        \/ \E ok \in BOOLEAN : DifficultyArrives(c, ok)
        \/ SendDone(c)
        \/ SendFails(c)

LinkCommand(who) ==
    \/ \E d \in who, g \in Groups, u \in Usernames : LinkProfileArrives(d, g, u)
    \/ LinkRecentArrives
    \/ LinkRecentFails

UntrackCommand == \E d \in Members, g \in Groups : Untrack(d, g)

SetChannelCommand == \E g \in Groups, ch \in Channels : SetChannel(g, ch)

Environment ==
    \E u \in Submitters, slug \in Slugs, status \in Statuses : Submit(u, slug, status)

Jobs ==
    \/ RecapStart
    \/ RecapChannelArrives
    \/ RecapGuildDone
    \/ NudgeStart
    \/ \E found \in BOOLEAN : NudgeProfileArrives(found)
    \/ NudgeProfileFails
    \/ NudgeSleepDone
    \/ NudgeChannelArrives
    \/ NudgeGuildDone

\* The Activity Monitor with the commands: one member links accounts in the
\* two guilds.
Next ==
    \/ Monitor
    \/ LinkCommand({"m1"})
    \/ UntrackCommand
    \/ SetChannelCommand
    \/ Environment

Spec == Init /\ [][Next]_vars

\* The Activity Monitor with the recap and nudge jobs.
InitJobs ==
    /\ InitStore
    /\ quota = [cycles |-> 1, links |-> 1, unlinks |-> 0,
                setchan |-> MaxSetChan, subs |-> MaxSubs + 1, recaps |-> 1, nudges |-> 1]

NextJobs ==
    \/ Monitor
    \/ LinkCommand({"m1"})
    \/ SetChannelCommand
    \/ Environment
    \/ Jobs

SpecJobs == InitJobs /\ [][NextJobs]_vars

\* The scheduler alone, on a bot that no guild has configured: it is started at
\* one of two times of the day, in one of the time zones.
StartTimes == {T0, DAY - HOUR - 2}

InitSched ==
    /\ clock \in StartTimes
    /\ ext = [u \in Usernames |-> History(u)]
    /\ InitTables
    /\ sched \in {[IdleSched EXCEPT !.offset = o] : o \in Offsets}
    /\ quota = [cycles |-> 0, links |-> 0, unlinks |-> 0, setchan |-> 0, subs |-> 0,
                recaps |-> 0, nudges |-> 0]

NextSched == Tick

SpecSched == InitSched /\ [][NextSched]_vars

NoQuota ==
    [cycles |-> 0, links |-> 0, unlinks |-> 0, setchan |-> 0, subs |-> 0,
     recaps |-> 0, nudges |-> 0]

\* One run of the Activity Monitor, of the recap or of the nudge on a bot in
\* use, with the failures of the store and of the network: one member tracked
\* under the same username in the two guilds, another member in the second
\* guild, a log channel in both, and solves of the day before in both ledgers.
TrackedRow(discordId, guildId, name, watermark) ==
    [UserRow(discordId, guildId, name, 1) EXCEPT !.last_submission_timestamp = watermark]

InitFaults ==
    /\ clock = DAY + 10 * HOUR
    /\ ext = [u \in Usernames |-> History(u)]
    /\ users = <<TrackedRow("m1", "g1", "u1", T0 - 2), TrackedRow("m1", "g2", "u1", T0 - 2),
                 TrackedRow("m2", "g2", "u2", T0 - 3)>>
    /\ guild_settings = [g \in Groups |-> "c1"]
    /\ solved_problems = {SolvedRow("m2", "g1", "s1", NULL, T0 - 5),
                          SolvedRow("m2", "g2", "s1", NULL, T0 - 5)}
    /\ sink = <<>>
    /\ looked = {}
    /\ cyc = [c \in Cycles |-> IdleCycle]
    /\ lnk = IdleLink
    /\ rcp = IdleRecap
    /\ ndg = IdleNudge
    /\ calls = <<>>
    /\ since = [a \in Members \X Groups |-> NotLinked]
    /\ sched = IdleSched
    /\ quota \in {[NoQuota EXCEPT !.cycles = 1], [NoQuota EXCEPT !.recaps = 1],
                  [NoQuota EXCEPT !.nudges = 1]}

Faults == \E c \in Cycles : LoadFails(c) \/ CallNeverResponds(c)

NextFaults ==
    \/ Monitor
    \/ Jobs
    \/ Faults

\* A step of cycle c after its trigger: a timer that fires, or a settled promise
\* whose continuation the event loop runs.
CycleStep(c) ==
    \/ SubmissionsArrive(c)
    \/ SubmissionsFail(c)
    \/ SleepDone(c)
    \/ \E outcome \in {"ok", "null", "fail"} : ProfileArrives(c, outcome)
    \/ ChannelArrives(c)
    \/ ChannelFails(c)
    \/ \E ok \in BOOLEAN : DifficultyArrives(c, ok)
    \/ SendDone(c)
    \/ SendFails(c)

\* Every call that gets a response is resumed, and every sleep ends.
SpecFaults == InitFaults /\ [][NextFaults]_vars /\ \A c \in Cycles : WF_vars(CycleStep(c))

\* The recap alone, over the ledgers of two members around the two ends of
\* yesterday, and over the ledger of a crowd larger than the recap's limit.
RecapNow == 2 * DAY + 10 * HOUR

WindowEdges ==
    {StartOfToday(RecapNow) - DAY - 1, StartOfToday(RecapNow) - DAY,
     StartOfToday(RecapNow) - 1, StartOfToday(RecapNow)}

CrowdIds == <<"r01", "r02", "r03", "r04", "r05", "r06", "r07", "r08", "r09", "r10", "r11">>

CrowdSlugs == <<"p01", "p02", "p03", "p04", "p05", "p06", "p07", "p08", "p09", "p10", "p11">>

\* Member i of the crowd solved i problems yesterday in g1.
CrowdLedger ==
    UNION {{SolvedRow(CrowdIds[i], "g1", CrowdSlugs[k], NULL, StartOfToday(RecapNow) - k) :
               k \in 1..i} : i \in 1..Len(CrowdIds)}

\* The ledgers of g1 in which each (member, problem) has no row, or one row at
\* one of the edges.
EdgeLedgers ==
    {UNION {IF t[d, slug] = NoDate THEN {}
            ELSE {SolvedRow(d, "g1", slug, NULL, t[d, slug])} : d \in Members, slug \in Slugs} :
        t \in [Members \X Slugs -> WindowEdges \cup {NoDate}]}

OtherGuildLedgers == {{}, {SolvedRow("m1", "g2", "s1", NULL, StartOfToday(RecapNow) - 1)}}

InitRecap ==
    /\ clock = RecapNow
    /\ ext = [u \in Usernames |-> History(u)]
    /\ users = <<>>
    /\ guild_settings \in [Groups -> Channels \cup {NULL}]
    /\ solved_problems \in {a \cup b : a \in EdgeLedgers \cup {CrowdLedger},
                                       b \in OtherGuildLedgers}
    /\ sink = <<>>
    /\ looked = {}
    /\ cyc = [c \in Cycles |-> IdleCycle]
    /\ lnk = IdleLink
    /\ rcp = IdleRecap
    /\ ndg = IdleNudge
    /\ calls = <<>>
    /\ since = [a \in Members \X Groups |-> NotLinked]
    /\ sched = IdleSched
    /\ quota = [NoQuota EXCEPT !.recaps = 1]

NextRecap ==
    \/ RecapStart
    \/ RecapChannelArrives
    \/ RecapGuildDone

SpecRecap == InitRecap /\ [][NextRecap]_vars

\* The nudge alone, in the evening of the third day: the two members tracked in
\* g1 or not, under either username, one of them in g2 as well; usernames with
\* no submission, or one accepted yesterday or today; ledgers with no row, or
\* a row one second before or at the start of today.
NudgeNow == 2 * DAY + 21 * HOUR

Trackings ==
    LET row(d, g, name, at) == IF name = NULL THEN <<>> ELSE <<UserRow(d, g, name, at)>>
    IN  {row("m1", "g1", a, 3) \o row("m2", "g1", b, 2) \o row("m1", "g2", c, 1) :
            a \in Usernames \cup {NULL}, b \in Usernames \cup {NULL}, c \in {"u1", NULL}}

Calendars ==
    {<<>>, <<Submission("s1", StartOfToday(NudgeNow) - 5, "Accepted")>>,
     <<Submission("s2", StartOfToday(NudgeNow) + 5, "Accepted")>>}

TodayEdgeLedgers ==
    {UNION {IF t[d] = NoDate THEN {} ELSE {SolvedRow(d, "g1", "s1", NULL, t[d])} : d \in Members} :
        t \in [Members -> {NoDate, StartOfToday(NudgeNow) - 1, StartOfToday(NudgeNow)}]}

InitNudge ==
    /\ clock = NudgeNow
    /\ ext \in [Usernames -> Calendars]
    /\ users \in Trackings
    /\ guild_settings \in [Groups -> Channels \cup {NULL}]
    /\ solved_problems \in TodayEdgeLedgers
    /\ sink = <<>>
    /\ looked = {}
    /\ cyc = [c \in Cycles |-> IdleCycle]
    /\ lnk = IdleLink
    /\ rcp = IdleRecap
    /\ ndg = IdleNudge
    /\ calls = <<>>
    /\ since = [a \in Members \X Groups |-> NotLinked]
    /\ sched = IdleSched
    /\ quota = [NoQuota EXCEPT !.nudges = 1]

NextNudge ==
    \/ NudgeStart
    \/ \E found \in BOOLEAN : NudgeProfileArrives(found)
    \/ NudgeProfileFails
    \/ NudgeSleepDone
    \/ NudgeChannelArrives
    \/ NudgeGuildDone

SpecNudge == InitNudge /\ [][NextNudge]_vars

\* The bot in use, with the commands: one run of the Activity Monitor, of the
\* recap or of the nudge, while a member links, a member untracks and a guild
\* sets its log channel.  Three accounts are tracked: one with two new solves
\* in a guild with a log channel, one with no new solve in the same guild, one
\* under the first username in a guild without log channel.  The ledger is
\* empty, or holds an earlier solve of a problem that the first account has
\* solved again.
BusyHistory(username) ==
    IF username = "u1"
    THEN <<Submission("s2", T0, "Accepted"), Submission("s1", T0 - 1, "Accepted")>>
    ELSE <<Submission("s2", T0 - 2, "Accepted")>>

TrackedAtStartup ==
    <<TrackedRow("m1", "g1", "u1", T0 - 2), TrackedRow("m2", "g1", "u2", T0 - 2),
      TrackedRow("m2", "g2", "u1", T0 - 1)>>

EarlierSolve == SolvedRow("m1", "g1", "s2", NULL, T0 - 7)

InitAdmin ==
    /\ clock = DAY + 10 * HOUR
    /\ ext \in {[u \in Usernames |-> BusyHistory(u)],
                [u \in Usernames |-> IF u = "u2" THEN <<>> ELSE BusyHistory(u)]}
    /\ users = TrackedAtStartup
    /\ guild_settings = [g \in Groups |-> IF g = "g1" THEN "c1" ELSE NULL]
    /\ solved_problems \in {{}, {EarlierSolve}}
    /\ sink = <<>>
    /\ looked = {}
    /\ cyc = [c \in Cycles |-> IdleCycle]
    /\ lnk = IdleLink
    /\ rcp = IdleRecap
    /\ ndg = IdleNudge
    /\ calls = <<>>
    /\ since = [a \in Members \X Groups |-> NotLinked]
    /\ sched = IdleSched
    /\ quota \in {[NoQuota EXCEPT !.cycles = 1, !.links = 1, !.unlinks = 1, !.setchan = 1],
                  [NoQuota EXCEPT !.recaps = 1, !.links = 1, !.unlinks = 1, !.setchan = 1],
                  [NoQuota EXCEPT !.nudges = 1, !.links = 1, !.unlinks = 1, !.setchan = 1]}

NextAdmin ==
    \/ Monitor
    \/ Jobs
    \/ LinkCommand({"m1"})
    \/ UntrackCommand
    \/ SetChannelCommand

SpecAdmin == InitAdmin /\ [][NextAdmin]_vars

\* Two poll cycles one after the other (the second timer fires when the first
\* cycle is over) on the three tracked accounts, with the failures of the
\* fetches and of the Sink, and nothing else going on.
InitRetry ==
    /\ clock = DAY + 10 * HOUR
    /\ ext = [u \in Usernames |-> BusyHistory(u)]
    /\ users = TrackedAtStartup
    /\ guild_settings \in {[g \in Groups |-> IF g = "g1" THEN "c1" ELSE NULL],
                           [g \in Groups |-> "c1"]}
    /\ solved_problems = {}
    /\ sink = <<>>
    /\ looked = {}
    /\ cyc = [c \in Cycles |-> IdleCycle]
    /\ lnk = IdleLink
    /\ rcp = IdleRecap
    /\ ndg = IdleNudge
    /\ calls = <<>>
    /\ since = [a \in Members \X Groups |-> NotLinked]
    /\ sched = IdleSched
    /\ quota = [NoQuota EXCEPT !.cycles = 2]

\* The timer fires when no cycle is in flight.
TriggerWhenIdle(c) ==
    /\ CyclesInFlight = {}
    /\ PollTrigger(c)

NextRetry ==
    \E c \in Cycles :
        \/ TriggerWhenIdle(c)
        \/ SubmissionsArrive(c)
        \/ SubmissionsFail(c)
        \/ SleepDone(c)
        \/ \E outcome \in {"ok", "null", "fail"} : ProfileArrives(c, outcome)
        \/ ChannelArrives(c)
        \/ ChannelFails(c)
        \/ \E ok \in BOOLEAN : DifficultyArrives(c, ok)
        \/ SendDone(c)
        \/ SendFails(c)

SpecRetry == InitRetry /\ [][NextRetry]_vars

\* The scheduler on a bot in use: the ticks of two days in one of the time
\* zones, and the jobs they start, with the failures of the profile fetches and
\* of the channel.  The first guild has a log channel and two tracked members.
InitDaily ==
    /\ clock \in StartTimes
    /\ ext = [u \in Usernames |-> BusyHistory(u)]
    /\ users = TrackedAtStartup
    /\ guild_settings = [g \in Groups |-> IF g = "g1" THEN "c1" ELSE NULL]
    /\ solved_problems = {EarlierSolve}
    /\ sink = <<>>
    /\ looked = {}
    /\ cyc = [c \in Cycles |-> IdleCycle]
    /\ lnk = IdleLink
    /\ rcp = IdleRecap
    /\ ndg = IdleNudge
    /\ calls = <<>>
    /\ since = [a \in Members \X Groups |-> NotLinked]
    /\ sched \in {[IdleSched EXCEPT !.offset = o] : o \in Offsets}
    /\ quota = NoQuota

NextDaily ==
    \/ Tick
    \/ RecapChannelArrives
    \/ RecapGuildDone
    \/ \E found \in BOOLEAN : NudgeProfileArrives(found)
    \/ NudgeProfileFails
    \/ NudgeSleepDone
    \/ NudgeChannelArrives
    \/ NudgeGuildDone

SpecDaily == InitDaily /\ [][NextDaily]_vars

\* ------------------------------------------------------------ properties
\* C1: for every (member, guild, problem slug), whatever the interleaving of the
\* poll cycles, the ledger holds at most one row and the sink has received at
\* most one victory message.
C1_AtMostOnce ==
    \A d \in Members, g \in Groups, slug \in Slugs :
        /\ Cardinality({r \in solved_problems :
               r.discord_id = d /\ r.guild_id = g /\ r.problem_slug = slug}) <= 1
        /\ Cardinality({n \in 1..Len(sink) :
               /\ sink[n].kind = "victory"
               /\ sink[n].discord_id = d
               /\ sink[n].guild_id = g
               /\ sink[n].slug = slug}) <= 1

\* A cycle is about to save a solve whose triple has already been saved and
\* announced.
C1_Witness ==
    \E c \in Cycles :
        /\ cyc[c].pc = "difficulty"
        /\ LET user == CurrentUser(c)
               solve == cyc[c].newSolves[cyc[c].j]
           IN  /\ \E r \in solved_problems :
                      /\ r.discord_id = user.discord_id
                      /\ r.guild_id = user.guild_id
                      /\ r.problem_slug = solve.titleSlug
               /\ \E n \in 1..Len(sink) :
                      /\ sink[n].kind = "victory"
                      /\ sink[n].discord_id = user.discord_id
                      /\ sink[n].guild_id = user.guild_id
                      /\ sink[n].slug = solve.titleSlug

\* C2: no two poll cycles are ever in flight at the same time.
C2_OneCycleInFlight == Cardinality(CyclesInFlight) <= 1

\* C3: a processUserSubmissions call on a non-empty batch for a row loaded with
\* last_submission_timestamp 0 returns without awaiting anything, pushes no
\* message, inserts no ledger row for the account, and leaves the stored
\* watermark at the largest timestamp of the batch, whatever the batch holds.
C3_BaselineNoAnnounce ==
    [][\A i \in 1..Len(calls') :
          LET call == calls'[i]
              d == call.user.discord_id
              g == call.user.guild_id
              batch == call.submissions
          IN  (batch # <<>> /\ call.user.last_submission_timestamp = 0) =>
                 /\ ~call.awaits
                 /\ sink' = sink
                 /\ {r \in solved_problems' : r.discord_id = d /\ r.guild_id = g}
                       = {r \in solved_problems : r.discord_id = d /\ r.guild_id = g}
                 /\ HasUser(users', d, g) =>
                       \E k \in 1..Len(batch) :
                          /\ getUser(users', d, g).last_submission_timestamp
                                = ParseInt(batch[k].timestamp)
                          /\ \A l \in 1..Len(batch) :
                                ParseInt(batch[l].timestamp) <= ParseInt(batch[k].timestamp)
      ]_vars

\* A baseline call has just run on a batch with an accepted entry, in a guild
\* that has a log channel.
C3_Witness ==
    \E i \in 1..Len(calls) :
        /\ calls[i].user.last_submission_timestamp = 0
        /\ \E k \in 1..Len(calls[i].submissions) :
               calls[i].submissions[k].statusDisplay = "Accepted"
        /\ guild_settings[calls[i].user.guild_id] # NULL

\* C4: no message is pushed and no ledger row is inserted for a submission that
\* the LeetCode account made before the (member, guild) row was linked to that
\* username.
C4_NothingFromBeforeTheLink ==
    [][\A c \in Cycles :
          (cyc[c].pc = "difficulty" /\ cyc'[c] # cyc[c]
             /\ (solved_problems' # solved_problems \/ sink' # sink)) =>
              LET user == CurrentUser(c)
                  solve == cyc[c].newSolves[cyc[c].j]
                  link == since[<<user.discord_id, user.guild_id>>]
              IN  ~(/\ link.username = user.leetcode_username
                    /\ ParseInt(solve.timestamp) <= link.at)
      ]_vars

\* C5: the stored last_submission_timestamp of a row never decreases for as
\* long as the row exists.
C5_WatermarkNeverDecreases ==
    [][\A d \in Members, g \in Groups :
          (HasUser(users, d, g) /\ HasUser(users', d, g)) =>
              getUser(users', d, g).last_submission_timestamp
                 >= getUser(users, d, g).last_submission_timestamp
      ]_vars

\* C6, as stated: after a call on a non-empty batch the stored watermark of the
\* account is the largest timestamp of the batch.
C6_WatermarkIsBatchMaximum ==
    [][\A i \in 1..Len(calls') :
          LET call == calls'[i]
              d == call.user.discord_id
              g == call.user.guild_id
              batch == call.submissions
          IN  (batch # <<>> /\ HasUser(users', d, g)) =>
                 \E k \in 1..Len(batch) :
                    /\ getUser(users', d, g).last_submission_timestamp
                          = ParseInt(batch[k].timestamp)
                    /\ \A l \in 1..Len(batch) :
                          ParseInt(batch[l].timestamp) <= ParseInt(batch[k].timestamp)
      ]_vars

\* C6, amended: after a call on a non-empty batch the stored watermark of the
\* account is the largest timestamp of the whole batch when the row was loaded
\* with watermark 0 or the batch holds an accepted entry newer than the loaded
\* watermark, and is left as it was stored otherwise; the later updateUserStats
\* of the call stores the largest timestamp of the batch again.
C6_WatermarkAfterBatch ==
    [][/\ \A i \in 1..Len(calls') :
             LET call == calls'[i]
                 d == call.user.discord_id
                 g == call.user.guild_id
                 batch == call.submissions
                 old == call.user.last_submission_timestamp
                 hasNew == \E k \in 1..Len(batch) :
                              /\ batch[k].statusDisplay = "Accepted"
                              /\ ParseInt(batch[k].timestamp) > old
             IN  (batch # <<>> /\ HasUser(users', d, g)) =>
                    IF old = 0 \/ hasNew
                    THEN \E k \in 1..Len(batch) :
                            /\ getUser(users', d, g).last_submission_timestamp
                                  = ParseInt(batch[k].timestamp)
                            /\ \A l \in 1..Len(batch) :
                                  ParseInt(batch[l].timestamp) <= ParseInt(batch[k].timestamp)
                    ELSE getUser(users', d, g).last_submission_timestamp
                            = getUser(users, d, g).last_submission_timestamp
       /\ \A c \in Cycles :
             (cyc[c].pc = "profile" /\ cyc'[c] # cyc[c] /\ users' # users) =>
                 LET user == CurrentUser(c)
                     batch == cyc[c].submissions
                 IN  \E k \in 1..Len(batch) :
                        /\ getUser(users', user.discord_id, user.guild_id).last_submission_timestamp
                              = ParseInt(batch[k].timestamp)
                        /\ \A l \in 1..Len(batch) :
                              ParseInt(batch[l].timestamp) <= ParseInt(batch[k].timestamp)
      ]_vars

\* A call has just stored a watermark that comes from an entry that is not
\* accepted, newer than the accepted entry it found.
C6_Witness ==
    \E i \in 1..Len(calls) :
        LET call == calls[i]
            batch == call.submissions
            old == call.user.last_submission_timestamp
        IN  /\ old # 0
            /\ HasUser(users, call.user.discord_id, call.user.guild_id)
            /\ \E k, l \in 1..Len(batch) :
                  /\ batch[k].statusDisplay = "Accepted"
                  /\ ParseInt(batch[k].timestamp) > old
                  /\ batch[l].statusDisplay # "Accepted"
                  /\ ParseInt(batch[l].timestamp) > ParseInt(batch[k].timestamp)
                  /\ getUser(users, call.user.discord_id, call.user.guild_id).last_submission_timestamp
                        = ParseInt(batch[l].timestamp)

C8_NoSinkWithoutLogChannel ==
    /\ \A n \in 1..Len(sink) :
          guild_settings[sink[n].guild_id] # NULL /\ sink[n].channel # NULL
    /\ \A p \in looked : guild_settings[p[1]] # NULL /\ p[2] # NULL

\* A job has passed over the first guild, which has no log channel, and has
\* sent its message for the second, while a cycle has announced a solve.
C8_Witness ==
    /\ guild_settings["g1"] = NULL
    /\ \E n \in 1..Len(sink) : sink[n].kind # "victory" /\ sink[n].guild_id = "g2"
    /\ \E n \in 1..Len(sink) : sink[n].kind = "victory"

\* C9: a call for a row of a guild without a log channel still leaves a ledger
\* row for every accepted entry of the batch newer than the loaded watermark.
C9_LedgerWithoutLogChannel ==
    [][\A i \in 1..Len(calls') :
          LET call == calls'[i]
              d == call.user.discord_id
              g == call.user.guild_id
              batch == call.submissions
              old == call.user.last_submission_timestamp
          IN  (old # 0 /\ guild_settings[g] = NULL) =>
                 \A k \in 1..Len(batch) :
                    (batch[k].statusDisplay = "Accepted" /\ ParseInt(batch[k].timestamp) > old)
                       => \E r \in solved_problems' :
                             /\ r.discord_id = d
                             /\ r.guild_id = g
                             /\ r.problem_slug = batch[k].titleSlug
      ]_vars

\* C10: every ledger row a cycle inserts and every victory message it pushes
\* is for an entry of the fetched batch that is Accepted and whose timestamp is
\* greater than the watermark of the row as the cycle loaded it, before its
\* own update of it.
C10_OnlyNewAcceptedEntries ==
    [][LET Source(c, d, g, slug, at) ==
               /\ cyc[c].pc = "difficulty"
               /\ cyc'[c] # cyc[c]
               /\ CurrentUser(c).discord_id = d
               /\ CurrentUser(c).guild_id = g
               /\ \E k \in 1..Len(cyc[c].submissions) :
                     LET sub == cyc[c].submissions[k]
                     IN  /\ sub.titleSlug = slug
                         /\ ParseInt(sub.timestamp) = at
                         /\ sub.statusDisplay = "Accepted"
                         /\ ParseInt(sub.timestamp) > CurrentUser(c).last_submission_timestamp
       IN  /\ \A r \in solved_problems' \ solved_problems :
                 \E c \in Cycles :
                    Source(c, r.discord_id, r.guild_id, r.problem_slug, r.solved_at)
           /\ \A n \in (Len(sink) + 1)..Len(sink') :
                 sink'[n].kind = "victory" =>
                    \E c \in Cycles :
                       Source(c, sink'[n].discord_id, sink'[n].guild_id, sink'[n].slug,
                              sink'[n].solved_at)
      ]_vars

\* A cycle has saved and announced a solve from a batch that also holds an
\* entry that is not accepted and newer than the loaded watermark.
C10_Witness ==
    \E c \in Cycles :
        /\ cyc[c].pc = "send"
        /\ solved_problems # {}
        /\ \E k \in 1..Len(cyc[c].submissions) :
              /\ cyc[c].submissions[k].statusDisplay # "Accepted"
              /\ ParseInt(cyc[c].submissions[k].timestamp)
                    > CurrentUser(c).last_submission_timestamp


\* C17: in one process lifetime, in any time zone, the recap is started at most
\* once per calendar day of the local time zone, and so is the nudge.
C17_OncePerLocalDay ==
    /\ \A i, k \in 1..Len(sched.recaps) : i # k => sched.recaps[i] # sched.recaps[k]
    /\ \A i, k \in 1..Len(sched.nudges) : i # k => sched.nudges[i] # sched.nudges[k]

\* C18: a tick inside the recap window starts the recap exactly when the recap
\* has not been started yet on that local calendar day, so a run of ticks of one
\* day inside the window starts it on its first tick and on no other; the same
\* for the nudge and its window.
C18_DailyLatch ==
    [][clock' = clock + TickPeriod =>
          LET date == LocalDate(clock', sched.offset)
              hours == getHours(clock', sched.offset)
              recapStarted == Len(sched'.recaps) = Len(sched.recaps) + 1
              nudgeStarted == Len(sched'.nudges) = Len(sched.nudges) + 1
              recapFired == \E i \in 1..Len(sched.recaps) : sched.recaps[i] = date
              nudgeFired == \E i \in 1..Len(sched.nudges) : sched.nudges[i] = date
          IN  /\ recapStarted <=> ((hours >= 9 /\ hours < 12) /\ ~recapFired)
              /\ nudgeStarted <=> ((hours >= 20 /\ hours < 23) /\ ~nudgeFired)
      ]_vars

\* C11: the victory messages that one call pushes for the new solves of one
\* batch are pushed in ascending order of submission timestamp: a message is
\* never pushed after the message of a solve of the same batch with a greater
\* timestamp.
C11_OldestFirst ==
    [][\A c \in Cycles :
          (cyc[c].pc = "difficulty" /\ cyc'[c] # cyc[c] /\ Len(sink') = Len(sink) + 1) =>
              LET user == CurrentUser(c)
                  solve == cyc[c].newSolves[cyc[c].j]
              IN  \A i \in 1..(cyc[c].j - 1) :
                     LET earlier == cyc[c].newSolves[i]
                     IN  (\E n \in 1..Len(sink) :
                             /\ sink[n].kind = "victory"
                             /\ sink[n].discord_id = user.discord_id
                             /\ sink[n].guild_id = user.guild_id
                             /\ sink[n].slug = earlier.titleSlug
                             /\ sink[n].solved_at = ParseInt(earlier.timestamp))
                         => ParseInt(earlier.timestamp) <= ParseInt(solve.timestamp)
      ]_vars

\* C12: in a cycle, a watermark write for an account stores the largest
\* timestamp of a batch the cycle has already fetched for its username; when a
\* call reaches its first await, with nothing pushed yet, the write has been
\* done; and a message is pushed only later, by the loop over the new solves.
C12_WatermarkBetweenFetchAndPush ==
    [][\A c \in Cycles :
          cyc'[c] # cyc[c] =>
             /\ \A d \in Members, g \in Groups :
                   (/\ HasUser(users, d, g)
                    /\ HasUser(users', d, g)
                    /\ getUser(users', d, g).last_submission_timestamp
                          # getUser(users, d, g).last_submission_timestamp) =>
                      LET stored == getUser(users', d, g).last_submission_timestamp
                          IsMax(batch) ==
                              \E k \in 1..Len(batch) :
                                 /\ stored = ParseInt(batch[k].timestamp)
                                 /\ \A l \in 1..Len(batch) :
                                       ParseInt(batch[l].timestamp) <= stored
                      IN  \/ \E i \in 1..Len(calls') :
                                /\ calls'[i].user.discord_id = d
                                /\ calls'[i].user.guild_id = g
                                /\ IsMax(calls'[i].submissions)
                          \/ /\ cyc[c].pc = "profile"
                             /\ CurrentUser(c).discord_id = d
                             /\ CurrentUser(c).guild_id = g
                             /\ IsMax(cyc[c].submissions)
             /\ cyc'[c].pc = "profile" =>
                   LET user == cyc'[c].byUser[cyc'[c].k].entries[cyc'[c].e]
                       batch == cyc'[c].submissions
                   IN  /\ sink' = sink
                       /\ HasUser(users', user.discord_id, user.guild_id) =>
                             \E k \in 1..Len(batch) :
                                /\ getUser(users', user.discord_id, user.guild_id)
                                      .last_submission_timestamp = ParseInt(batch[k].timestamp)
                                /\ \A l \in 1..Len(batch) :
                                      ParseInt(batch[l].timestamp) <= ParseInt(batch[k].timestamp)
             /\ Len(sink') > Len(sink) => cyc[c].pc = "difficulty"
      ]_vars

\* A cycle has pushed a message for an account whose stored watermark is the
\* largest timestamp of the batch, a timestamp the row did not have when loaded.
C12_Witness ==
    \E c \in Cycles :
        /\ cyc[c].pc = "send"
        /\ LET user == CurrentUser(c)
               batch == cyc[c].submissions
           IN  /\ HasUser(users, user.discord_id, user.guild_id)
               /\ getUser(users, user.discord_id, user.guild_id).last_submission_timestamp
                     > user.last_submission_timestamp
               /\ \A l \in 1..Len(batch) :
                     ParseInt(batch[l].timestamp)
                        <= getUser(users, user.discord_id, user.guild_id).last_submission_timestamp
               /\ \E n \in 1..Len(sink) :
                     sink[n].discord_id = user.discord_id /\ sink[n].guild_id = user.guild_id

\* C13: when the fetch of a username fails, the cycle goes on: the next
\* username of the cycle is fetched (or the cycle is over when there is none),
\* and a fetch that resolves is followed by the processing of the accounts of
\* its username, from the first.
C13_FetchFailureIsolated ==
    [][\A c \in Cycles :
          (cyc[c].pc = "fetch" /\ cyc'[c] # cyc[c]) =>
             IF calls' = <<>>
             THEN IF cyc[c].k < Len(cyc[c].byUser)
                  THEN /\ cyc'[c].pc = "fetch"
                       /\ cyc'[c].byUser = cyc[c].byUser
                       /\ cyc'[c].k = cyc[c].k + 1
                       /\ cyc'[c].fetched
                             = Append(cyc[c].fetched, cyc[c].byUser[cyc[c].k + 1].username)
                  ELSE cyc'[c].pc = "done"
             ELSE /\ calls'[1].user = cyc[c].byUser[cyc[c].k].entries[1]
                  /\ cyc'[c].pc \in {"profile", "sleep"}
      ]_vars

\* A cycle has processed its second username after the fetch of the first one
\* failed: the row of the first, loaded with watermark 0, has still no baseline.
C13_Witness ==
    \E c \in Cycles :
        /\ cyc[c].pc = "sleep"
        /\ cyc[c].k = 2
        /\ LET first == cyc[c].byUser[1].entries[1]
           IN  /\ first.last_submission_timestamp = 0
               /\ ext[first.leetcode_username] # <<>>
               /\ HasUser(users, first.discord_id, first.guild_id)
               /\ getUser(users, first.discord_id, first.guild_id) = first

\* C14: when the channel lookup or the send of an announcement fails, the call
\* ends and the cycle goes on with the same username: the remaining accounts
\* of the username are processed in order, from the next one, then the sleep
\* and the next username follow.  In the recap and in the nudge, a guild whose
\* lookup or send has settled, failed or not, is followed by the next guild
\* of the cache that has a log channel and something to report.
C14_SinkFailureIsolated ==
    [][/\ \A c \in Cycles :
            /\ (/\ cyc[c].pc \in {"channel", "send"}
                /\ cyc'[c] # cyc[c]
                /\ cyc'[c].pc # "difficulty") =>
                  LET entries == cyc[c].byUser[cyc[c].k].entries
                      e == cyc[c].e
                      n == Len(calls')
                  IN  /\ cyc'[c].k = cyc[c].k
                      /\ cyc'[c].pc \in {"profile", "sleep"}
                      /\ e + n <= Len(entries)
                      /\ \A i \in 1..n : calls'[i].user = entries[e + i]
                      /\ e < Len(entries) => n >= 1
                      /\ cyc'[c].pc = "profile" => calls'[n].awaits /\ cyc'[c].e = e + n
                      /\ cyc'[c].pc = "sleep" => e + n = Len(entries)
            /\ (cyc[c].pc = "sleep" /\ cyc'[c] # cyc[c]) =>
                  IF cyc[c].k < Len(cyc[c].byUser)
                  THEN /\ cyc'[c].pc = "fetch"
                       /\ cyc'[c].k = cyc[c].k + 1
                       /\ cyc'[c].byUser = cyc[c].byUser
                  ELSE cyc'[c].pc = "done"
       /\ (/\ rcp.pc \in {"channel", "send"}
           /\ rcp' # rcp
           /\ ~(rcp.pc = "channel" /\ rcp'.pc = "send")) =>
             LET later == {i \in (rcp.gi + 1)..Len(GuildCache) :
                             /\ getLogChannel(guild_settings, GuildCache[i]) # NULL
                             /\ \E r \in solved_problems :
                                   /\ r.guild_id = GuildCache[i]
                                   /\ r.solved_at >= StartOfDay(clock) - DAY
                                   /\ r.solved_at < StartOfDay(clock)}
             IN  IF later = {} THEN rcp'.pc = "idle"
                 ELSE /\ rcp'.pc = "channel"
                      /\ rcp'.gi \in later
                      /\ \A i \in later : rcp'.gi <= i
       /\ (/\ ndg.pc \in {"channel", "send"}
           /\ ndg' # ndg
           /\ ~(ndg.pc = "channel" /\ ndg'.pc = "send")) =>
             LET later == {i \in (ndg.gi + 1)..Len(GuildCache) :
                             /\ getLogChannel(guild_settings, GuildCache[i]) # NULL
                             /\ \E m \in 1..Len(users) : users[m].guild_id = GuildCache[i]}
             IN  IF later = {} THEN ndg'.pc = "idle"
                 ELSE /\ ndg'.pc = "profile"
                      /\ ndg'.ui = 1
                      /\ ndg'.gi \in later
                      /\ \A i \in later : ndg'.gi <= i
      ]_vars

\* A cycle is over in which the channel lookup for one guild was made and left
\* nothing in the ledger, while the solve of the same member under the same
\* username was announced in the other guild.
C14_Witness ==
    \E c \in Cycles, d \in Members, g, h \in Groups :
        /\ cyc[c].pc = "done"
        /\ g # h
        /\ HasUser(users, d, g)
        /\ HasUser(users, d, h)
        /\ getUser(users, d, g).leetcode_username = getUser(users, d, h).leetcode_username
        /\ <<g, getLogChannel(guild_settings, g)>> \in looked
        /\ ~\E r \in solved_problems : r.discord_id = d /\ r.guild_id = g
        /\ \E n \in 1..Len(sink) :
              /\ sink[n].kind = "victory"
              /\ sink[n].discord_id = d
              /\ sink[n].guild_id = h

\* C15: no failure leaves pollAllUsers: the promise that a timer callback got
\* from it is never rejected.
C15_NoFailureLeavesTheCycle == \A c \in Cycles : cyc[c].pc # "rejected"

\* C16: a cycle that waits for an external call eventually finishes.
C16_EveryCycleFinishes ==
    \A c \in Cycles : (cyc[c].pc \in ExternalCalls) ~> (cyc[c].pc = "done")

\* C19: the recap job passes every guild that has no log channel or no ledger
\* row in [start of yesterday, start of today) without a Sink call, and stops
\* at the first other guild with a list that holds exactly the members with
\* such a row, each once with the number of its rows, in descending order of
\* that number, cut to the 10 members with the most rows; the message sent
\* carries that list.
C19_RecapOfYesterday ==
    [][LET inWindow(r, g) == /\ r.guild_id = g
                             /\ r.solved_at >= StartOfDay(clock) - DAY
                             /\ r.solved_at < StartOfDay(clock)
           solvers(g) == {r.discord_id : r \in {x \in solved_problems : inWindow(x, g)}}
           cnt(g, d) == Cardinality({r \in solved_problems : inWindow(r, g) /\ r.discord_id = d})
           eligible(g) == guild_settings[g] # NULL /\ solvers(g) # {}
       IN  /\ (/\ rcp' # rcp
               /\ rcp'.pc \in {"channel", "idle"}) =>
                 LET from == IF rcp.pc = "idle" THEN 1 ELSE rcp.gi + 1
                     to == IF rcp'.pc = "channel" THEN rcp'.gi - 1 ELSE Len(GuildCache)
                 IN  /\ \A i \in from..to : ~eligible(GuildCache[i])
                     /\ \A i \in from..to : <<GuildCache[i], guild_settings[GuildCache[i]]>> \notin looked'
           /\ (rcp' # rcp /\ rcp'.pc = "channel") =>
                 LET g == GuildCache[rcp'.gi]
                     top == rcp'.topSolvers
                     n == Len(top)
                 IN  /\ eligible(g)
                     /\ \A i \in 1..n : /\ top[i].discord_id \in solvers(g)
                                        /\ top[i].count = cnt(g, top[i].discord_id)
                                        /\ top[i].count >= 1
                     /\ \A i, k \in 1..n : i # k => top[i].discord_id # top[k].discord_id
                     /\ \A i, k \in 1..n : i < k => top[i].count >= top[k].count
                     /\ n = (IF Cardinality(solvers(g)) < 10 THEN Cardinality(solvers(g)) ELSE 10)
                     /\ \A d \in solvers(g) :
                           (\A i \in 1..n : top[i].discord_id # d) =>
                               \A i \in 1..n : cnt(g, d) <= top[i].count
           /\ sink' # sink =>
                 /\ rcp.pc = "channel"
                 /\ sink' = Append(sink, sink'[Len(sink')])
                 /\ sink'[Len(sink')].kind = "recap"
                 /\ sink'[Len(sink')].guild_id = GuildCache[rcp.gi]
                 /\ sink'[Len(sink')].channel = guild_settings[GuildCache[rcp.gi]]
                 /\ sink'[Len(sink')].lines = rcp.topSolvers
                 /\ eligible(GuildCache[rcp.gi])
      ]_vars

\* A recap has been sent for a guild in which more than 10 members solved
\* something yesterday: it lists 10 of them, the first with more solves than
\* the last.
C19_Witness ==
    \E n \in 1..Len(sink) :
        /\ sink[n].kind = "recap"
        /\ Len(sink[n].lines) = 10
        /\ sink[n].lines[1].count > sink[n].lines[10].count
        /\ Cardinality({r.discord_id : r \in
              {x \in solved_problems : /\ x.guild_id = sink[n].guild_id
                                       /\ x.solved_at >= StartOfDay(clock) - DAY
                                       /\ x.solved_at < StartOfDay(clock)}}) > 10

\* C20: in every step of the nudge that evaluates members of a guild (the
\* member whose profile fetch has just settled, and the members after it whose
\* username is already in the cache), the members added to the at-risk list are
\* exactly the evaluated members whose fetched profile has a current streak
\* greater than 0 and who have no ledger row in the guild with solved_at >=
\* start of today, each with the fetched streak; when the loop over the members
\* ends with somebody at risk, the alert carries the list.
C20_AtRiskIffStreakAndNoSolveToday ==
    [][/\ (ndg.pc \in {"profile", "sleep"} /\ ndg' # ndg /\ ndg'.pc # "sleep") =>
            LET g == GuildCache[ndg.gi]
                rows == ndg.guildUsers
                name(i) == rows[i].leetcode_username
                fetched == IF ndg.pc = "sleep" THEN ndg.checked
                           ELSE [ndg.checked EXCEPT ![name(ndg.ui)] = NoProfile]
                same == ndg'.gi = ndg.gi /\ ndg'.pc \in {"profile", "channel"}
                last == IF same /\ ndg'.pc = "profile" THEN ndg'.ui - 1 ELSE Len(rows)
                solvedToday(d) == \E r \in solved_problems :
                                      /\ r.discord_id = d
                                      /\ r.guild_id = g
                                      /\ r.solved_at >= StartOfDay(clock)
                atRisk(i) == /\ fetched[name(i)].found
                             /\ fetched[name(i)].currentStreak > 0
                             /\ ~solvedToday(rows[i].discord_id)
                flagged == {i \in ndg.ui..last : atRisk(i)}
                before == Len(ndg.atRisk)
            IN  IF same
                THEN /\ Len(ndg'.atRisk) = before + Cardinality(flagged)
                     /\ \A n \in 1..before : ndg'.atRisk[n] = ndg.atRisk[n]
                     /\ \A i \in flagged :
                           \E n \in (before + 1)..Len(ndg'.atRisk) :
                              /\ ndg'.atRisk[n].discordId = rows[i].discord_id
                              /\ ndg'.atRisk[n].streak = fetched[name(i)].currentStreak
                     /\ \A n \in (before + 1)..Len(ndg'.atRisk) :
                           \E i \in flagged : ndg'.atRisk[n].discordId = rows[i].discord_id
                     /\ ndg'.pc = "channel" => ndg'.atRisk # <<>>
                ELSE /\ flagged = {}
                     /\ ndg.atRisk = <<>>
       /\ sink' # sink =>
            /\ ndg.pc = "channel"
            /\ sink' = Append(sink, sink'[Len(sink')])
            /\ sink'[Len(sink')].kind = "nudge"
            /\ sink'[Len(sink')].guild_id = GuildCache[ndg.gi]
            /\ sink'[Len(sink')].lines = ndg.atRisk
      ]_vars

\* An alert has been sent that flags one member of a guild with a streak, while
\* another tracked member of the guild, whose username has a streak as well,
\* is not flagged: that one has a ledger row of today.
C20_Witness ==
    \E n \in 1..Len(sink), d, o \in Members :
        /\ sink[n].kind = "nudge"
        /\ d # o
        /\ \E k \in 1..Len(sink[n].lines) :
              sink[n].lines[k].discordId = d /\ sink[n].lines[k].streak > 0
        /\ \A k \in 1..Len(sink[n].lines) : sink[n].lines[k].discordId # o
        /\ HasUser(users, o, sink[n].guild_id)
        /\ ExtStreak(ext, getUser(users, o, sink[n].guild_id).leetcode_username, clock) > 0
        /\ \E r \in solved_problems :
              /\ r.discord_id = o
              /\ r.guild_id = sink[n].guild_id
              /\ r.solved_at >= StartOfDay(clock)

\* C21: the save of a solve by the Monitor is one insert-if-absent: when the
\* ledger holds a row for the (member, guild, slug) of the solve, the save
\* changes nothing and reports false (nothing is announced); when it holds
\* none, exactly the row of the solve is added and the save reports true (the
\* solve is announced); afterwards the ledger holds exactly one row for it.
C21_InsertIfAbsent ==
    [][\A c \in Cycles :
          (cyc[c].pc = "difficulty" /\ cyc'[c] # cyc[c]) =>
             LET user == CurrentUser(c)
                 solve == cyc[c].newSolves[cyc[c].j]
                 same(r) == /\ r.discord_id = user.discord_id
                            /\ r.guild_id = user.guild_id
                            /\ r.problem_slug = solve.titleSlug
                 existed == \E r \in solved_problems : same(r)
             IN  /\ Cardinality({r \in solved_problems' : same(r)}) = 1
                 /\ solved_problems \subseteq solved_problems'
                 /\ existed => solved_problems' = solved_problems /\ sink' = sink
                 /\ ~existed =>
                       /\ \E r \in solved_problems' :
                             /\ same(r)
                             /\ r.solved_at = ParseInt(solve.timestamp)
                             /\ solved_problems' = solved_problems \cup {r}
                       /\ Len(sink') = Len(sink) + 1
                       /\ sink'[Len(sink')].kind = "victory"
                       /\ sink'[Len(sink')].discord_id = user.discord_id
                       /\ sink'[Len(sink')].guild_id = user.guild_id
                       /\ sink'[Len(sink')].slug = solve.titleSlug
      ]_vars

\* A cycle is at the second new solve of an account without having announced
\* the first: the save of the first found the row of an earlier solve of the
\* same problem, which still holds the earlier time.
C21_Witness ==
    \E c \in Cycles :
        /\ cyc[c].pc = "difficulty"
        /\ cyc[c].j = 2
        /\ LET user == CurrentUser(c)
               first == cyc[c].newSolves[1]
           IN  /\ \E r \in solved_problems :
                      /\ r.discord_id = user.discord_id
                      /\ r.guild_id = user.guild_id
                      /\ r.problem_slug = first.titleSlug
                      /\ r.solved_at # ParseInt(first.timestamp)
               /\ ~\E n \in 1..Len(sink) :
                      /\ sink[n].kind = "victory"
                      /\ sink[n].discord_id = user.discord_id
                      /\ sink[n].guild_id = user.guild_id
                      /\ sink[n].slug = first.titleSlug

\* C22: no step of the system (a poll cycle, the recap, the nudge, /link on a
\* new or a tracked member, /untrack, the setting of a log channel) removes a
\* row from the ledger or changes one: every row of the ledger is still in it,
\* as it was, after the step.
C22_LedgerAppendOnly == [][solved_problems \subseteq solved_problems']_vars

\* A member has been untracked, a link has been made, a log channel has been
\* set and a cycle has saved solves: the earlier solve of the untracked member
\* is still in the ledger.
C22_Witness ==
    /\ quota.links = 0
    /\ quota.unlinks = 0
    /\ quota.setchan = 0
    /\ lnk.pc = "idle"
    /\ \E c \in Cycles : cyc[c].pc = "done"
    /\ EarlierSolve \in solved_problems
    /\ ~HasUser(users, EarlierSolve.discord_id, EarlierSolve.guild_id)
    /\ Cardinality(solved_problems) > 1

\* C23: after every step the store holds at most one row per (member, guild);
\* the linkUser of a /link on a tracked (member, guild) changes the username
\* (and the link time) of its row in place, and on a new (member, guild) adds
\* one row at the end; in both cases every other row is left as it was.
C23_OneRowPerMemberAndGuild ==
    [][/\ \A d \in Members, g \in Groups : Cardinality(RowIndex(users', d, g)) <= 1
       /\ (lnk.pc = "idle" /\ lnk'.pc = "recent") =>
             LET d == lnk'.discord_id
                 g == lnk'.guild_id
                 old == RowIndex(users, d, g)
             IN  /\ HasUser(users', d, g)
                 /\ getUser(users', d, g).leetcode_username = lnk'.username
                 /\ IF old # {}
                    THEN /\ Len(users') = Len(users)
                         /\ \A i \in 1..Len(users) :
                               IF i \in old
                               THEN users'[i] = [users[i] EXCEPT
                                                    !.leetcode_username = lnk'.username,
                                                    !.linked_at = users'[i].linked_at]
                               ELSE users'[i] = users[i]
                    ELSE /\ Len(users') = Len(users) + 1
                         /\ \A i \in 1..Len(users) : users'[i] = users[i]
      ]_vars

\* A /link of a tracked member has just replaced the username of the row, which
\* keeps its watermark, among the rows of the other accounts.
C23_Witness ==
    /\ lnk.pc = "recent"
    /\ \A c \in Cycles : cyc[c].pc = "idle"
    /\ Len(users) > 1
    /\ HasUser(users, lnk.discord_id, lnk.guild_id)
    /\ LET row == getUser(users, lnk.discord_id, lnk.guild_id)
       IN  /\ row.leetcode_username = lnk.username
           /\ row.last_submission_timestamp # 0
           /\ \E u \in Usernames : u # lnk.username /\ row \in
                 {[r EXCEPT !.leetcode_username = lnk.username, !.linked_at = row.linked_at] :
                     r \in {x \in Range(TrackedAtStartup) : x.leetcode_username = u}}

\* C24: a step that is not a step of a poll cycle (a step of /link, /untrack,
\* the setting of a log channel, the recap or the nudge) leaves the watermark,
\* the total and the streak of every tracked row that has a watermark as they
\* were.
C24_OnlyTheMonitorWritesTheWatermark ==
    [][(\A c \in Cycles : cyc'[c] = cyc[c]) =>
          \A d \in Members, g \in Groups :
             (/\ HasUser(users, d, g)
              /\ HasUser(users', d, g)
              /\ getUser(users, d, g).last_submission_timestamp # 0) =>
                /\ getUser(users', d, g).last_submission_timestamp
                      = getUser(users, d, g).last_submission_timestamp
                /\ getUser(users', d, g).total_solved = getUser(users, d, g).total_solved
                /\ getUser(users', d, g).current_streak = getUser(users, d, g).current_streak
      ]_vars

\* C25: the store shows the effect of a command as soon as its write is made
\* (no row after unlinkUser, which removes a row exactly when there was one;
\* the linked username after linkUser; the channel after setLogChannel), and
\* every cycle and job reads the store when it runs: a cycle loads exactly the
\* rows the store holds when it starts, fetches only their usernames and
\* writes and announces only for them, and the log channel used by a call, by
\* the recap or by the nudge is the one the store holds at that step, as the
\* members of a guild in the nudge are.
C25_CommandsAreSeenByTheNextCycle ==
    [][/\ \A d \in Members, g \in Groups :
            /\ ~HasUser(unlinkUser(users, d, g), d, g)
            /\ (Len(unlinkUser(users, d, g)) < Len(users)) <=> HasUser(users, d, g)
            /\ \A u \in Usernames :
                  /\ HasUser(linkUser(users, d, g, u, clock), d, g)
                  /\ getUser(linkUser(users, d, g, u, clock), d, g).leetcode_username = u
       /\ \A g \in Groups, ch \in Channels :
            getLogChannel(setLogChannel(guild_settings, g, ch), g) = ch
       /\ \A c \in Cycles :
            /\ (cyc[c].pc = "idle" /\ cyc'[c].pc # "idle") =>
                  LET B == cyc'[c].byUser
                  IN  /\ users = <<>> => cyc'[c].pc = "done"
                      /\ users # <<>> => cyc'[c].pc = "fetch"
                      /\ \A i \in 1..Len(users) :
                            \E k \in 1..Len(B) :
                               /\ B[k].username = users[i].leetcode_username
                               /\ \E e \in 1..Len(B[k].entries) : B[k].entries[e] = users[i]
                      /\ \A k \in 1..Len(B) : \A e \in 1..Len(B[k].entries) :
                            /\ B[k].entries[e] \in Range(users)
                            /\ B[k].entries[e].leetcode_username = B[k].username
                      /\ \A k, l \in 1..Len(B) : k # l => B[k].username # B[l].username
            /\ (cyc[c].pc \notin {"idle", "done"} /\ cyc'[c] # cyc[c]) =>
                  LET B == cyc[c].byUser
                      loaded(d, g) == \E k \in 1..Len(B) : \E e \in 1..Len(B[k].entries) :
                                         /\ B[k].entries[e].discord_id = d
                                         /\ B[k].entries[e].guild_id = g
                  IN  /\ \A i \in 1..Len(cyc'[c].fetched) :
                            \E k \in 1..Len(B) : B[k].username = cyc'[c].fetched[i]
                      /\ \A i \in 1..Len(calls') :
                            loaded(calls'[i].user.discord_id, calls'[i].user.guild_id)
                      /\ \A d \in Members, g \in Groups :
                            (HasUser(users, d, g) /\ getUser(users', d, g) # getUser(users, d, g))
                               => loaded(d, g)
                      /\ \A r \in solved_problems' \ solved_problems :
                            loaded(r.discord_id, r.guild_id)
                      /\ sink' # sink =>
                            loaded(sink'[Len(sink')].discord_id, sink'[Len(sink')].guild_id)
                      /\ (cyc'[c].pc = "profile" /\ calls' # <<>>) =>
                            cyc'[c].logChannelId
                               = guild_settings[calls'[Len(calls')].user.guild_id]
       /\ (rcp' # rcp /\ rcp'.pc = "channel") =>
            rcp'.logChannelId = guild_settings[GuildCache[rcp'.gi]]
       /\ (ndg' # ndg /\ ndg'.pc = "profile" /\ (ndg.pc = "idle" \/ ndg'.gi # ndg.gi)) =>
            /\ ndg'.logChannelId = guild_settings[GuildCache[ndg'.gi]]
            /\ Len(ndg'.guildUsers)
                  = Cardinality({i \in 1..Len(users) : users[i].guild_id = GuildCache[ndg'.gi]})
            /\ \A i \in 1..Len(ndg'.guildUsers) :
                  /\ ndg'.guildUsers[i] \in Range(users)
                  /\ ndg'.guildUsers[i].guild_id = GuildCache[ndg'.gi]
      ]_vars

\* After an /untrack and a /link have returned, a cycle has started: it has
\* loaded the row that the /link wrote, and no row of the account that was
\* untracked.
C25_Witness ==
    \E c \in Cycles :
        /\ cyc[c].pc = "fetch"
        /\ quota.unlinks = 0
        /\ quota.links = 0
        /\ lnk.pc = "idle"
        /\ LET B == cyc[c].byUser
               entries == UNION {Range(B[k].entries) : k \in 1..Len(B)}
           IN  /\ \E x \in entries : x.linked_at = clock
               /\ \E r \in Range(TrackedAtStartup) :
                     \A x \in entries : ~(x.discord_id = r.discord_id /\ x.guild_id = r.guild_id)

\* C26: when a call of processUserSubmissions has a row with a watermark other
\* than 0 and a batch with no Accepted entry newer than that watermark (an
\* empty batch included), the call returns before its first await (no profile,
\* channel or difficulty request, no message), and the step leaves the row of
\* the account, its rows of the ledger and its messages as they were.
C26_NothingNewChangesNothing ==
    [][\A i \in 1..Len(calls') :
          LET user == calls'[i].user
              batch == calls'[i].submissions
              lastTimestamp == user.last_submission_timestamp
              mine(r) == r.discord_id = user.discord_id /\ r.guild_id = user.guild_id
          IN  (/\ lastTimestamp # 0
               /\ \A k \in 1..Len(batch) :
                     ~(/\ batch[k].statusDisplay = "Accepted"
                       /\ ParseInt(batch[k].timestamp) > lastTimestamp)) =>
                 /\ calls'[i].awaits = FALSE
                 /\ HasUser(users', user.discord_id, user.guild_id)
                       <=> HasUser(users, user.discord_id, user.guild_id)
                 /\ HasUser(users, user.discord_id, user.guild_id) =>
                       getUser(users', user.discord_id, user.guild_id)
                          = getUser(users, user.discord_id, user.guild_id)
                 /\ {r \in solved_problems' : mine(r)} = {r \in solved_problems : mine(r)}
                 /\ SelectSeq(sink', mine) = SelectSeq(sink, mine)
                 /\ \A c \in Cycles :
                       (cyc'[c] # cyc[c] /\ cyc'[c].pc \in {"profile", "channel", "difficulty", "send"})
                          => ~mine(cyc'[c].byUser[cyc'[c].k].entries[cyc'[c].e])
      ]_vars

\* A call has just returned for an account whose watermark was set, with a
\* batch whose newest entry is newer than the watermark and not Accepted; the
\* stored watermark is still the one the cycle loaded.
C26_Witness ==
    \E i \in 1..Len(calls) :
        LET user == calls[i].user
            batch == calls[i].submissions
        IN  /\ user.last_submission_timestamp # 0
            /\ batch # <<>>
            /\ batch[1].statusDisplay # "Accepted"
            /\ ParseInt(batch[1].timestamp) > user.last_submission_timestamp
            /\ \A k \in 1..Len(batch) :
                  ~(/\ batch[k].statusDisplay = "Accepted"
                    /\ ParseInt(batch[k].timestamp) > user.last_submission_timestamp)
            /\ calls[i].awaits = FALSE
            /\ HasUser(users, user.discord_id, user.guild_id)
            /\ getUser(users, user.discord_id, user.guild_id).last_submission_timestamp
                  = user.last_submission_timestamp

\* C27: a tick starts the recap only when the local hour is 9, 10 or 11, and
\* the nudge only when it is 20, 21 or 22; a tick at any other local hour leaves
\* the job idle and its latch as it was, whatever the latch holds.
C27_JobsStartInsideTheirWindow ==
    [][clock' = clock + TickPeriod =>
          LET hours == getHours(clock', sched.offset)
              morning == hours \in {9, 10, 11}
              evening == hours \in {20, 21, 22}
          IN  /\ Len(sched'.recaps) > Len(sched.recaps) => morning
              /\ Len(sched'.nudges) > Len(sched.nudges) => evening
              /\ sched'.lastRecapDate # sched.lastRecapDate => morning
              /\ sched'.lastNudgeDate # sched.lastNudgeDate => evening
              /\ ~morning => (rcp' = rcp /\ sched'.recaps = sched.recaps)
              /\ ~evening => (ndg' = ndg /\ sched'.nudges = sched.nudges)
      ]_vars

\* Both jobs have been started, and the last tick fell outside both windows
\* with both latches set.
C27_Witness ==
    /\ Len(sched.recaps) >= 1
    /\ Len(sched.nudges) >= 1
    /\ sched.lastRecapDate # NoDate
    /\ sched.lastNudgeDate # NoDate
    /\ clock \notin StartTimes
    /\ getHours(clock, sched.offset) \notin {9, 10, 11, 20, 21, 22}

\* C28: in the nudge of one guild, a profile is requested at most once per
\* username: when getUserProfile is called for a member, no member that the
\* loop has already passed in this guild has the same username.
C28_OneProfileFetchPerUsername ==
    ndg.pc = "profile" =>
       \A i \in 1..(ndg.ui - 1) :
          ndg.guildUsers[i].leetcode_username # ndg.guildUsers[ndg.ui].leetcode_username

\* C29: in a nudge run a guild is visited once and gets at most one alert,
\* and an alert never has an empty list.  When the run leaves a guild where
\* somebody is at risk, the alert of the guild has been handed to the channel
\* API exactly once (one channel lookup, then one send with the whole at-risk
\* list when the lookup resolves to a channel); when it leaves a guild where
\* nobody is at risk, no lookup and no send has been made for it; and a guild
\* without log channel gets nothing.
C29_OneCombinedAlertPerGuild ==
    [][/\ \A g \in Groups :
            LET alerts == {n \in 1..Len(sink') :
                              sink'[n].kind = "nudge" /\ sink'[n].guild_id = g}
            IN  /\ Cardinality(alerts) <= 1
                /\ \A n \in alerts : sink'[n].lines # <<>>
                /\ alerts # {} => ~JobSkipsGuild(getLogChannel(guild_settings, g))
       /\ (ndg.pc # "idle" /\ ndg'.pc # "idle") => ndg'.gi >= ndg.gi
       /\ (ndg.pc = "channel" /\ ndg' # ndg) =>
            \/ /\ ndg'.pc = "send"
               /\ ndg'.gi = ndg.gi
               /\ sink' = Append(sink, sink'[Len(sink')])
               /\ sink'[Len(sink')].lines = ndg.atRisk
            \/ /\ ndg'.pc = "idle" \/ ndg'.gi > ndg.gi
               /\ sink' = sink
       /\ (ndg.pc # "idle" /\ (ndg'.pc = "idle" \/ ndg'.gi # ndg.gi)) =>
            LET g == GuildCache[ndg.gi]
                alerts == {n \in 1..Len(sink') :
                              sink'[n].kind = "nudge" /\ sink'[n].guild_id = g}
            IN  IF ndg.atRisk # <<>>
                THEN /\ ndg.pc \in {"channel", "send"}
                     /\ <<g, ndg.logChannelId>> \in looked
                     /\ ndg.pc = "send" =>
                           /\ Cardinality(alerts) = 1
                           /\ \A n \in alerts : sink'[n].lines = ndg.atRisk
                     /\ ndg.pc = "channel" => alerts = {}
                ELSE /\ ndg.pc \notin {"channel", "send"}
                     /\ alerts = {}
                     /\ <<g, ndg.logChannelId>> \notin looked'
      ]_vars

\* The run is over: the first guild has got one alert that lists its two
\* members, and the second guild, with a log channel and a tracked member, has
\* got none.
C29_Witness ==
    /\ ndg.pc = "idle"
    /\ quota.nudges = 0
    /\ \E n \in 1..Len(sink) :
          /\ sink[n].kind = "nudge"
          /\ sink[n].guild_id = "g1"
          /\ Len(sink[n].lines) = 2
          /\ sink[n].lines[1].discordId # sink[n].lines[2].discordId
    /\ guild_settings["g2"] # NULL
    /\ HasUser(users, "m1", "g2")
    /\ \A n \in 1..Len(sink) : sink[n].guild_id # "g2"

\* C30: whatever getUserProfile gives (a profile, null, an error), the call
\* goes on to the channel lookup with all its new solves, and without a
\* profile the row of the account keeps its cached stats; whatever
\* getProblemDifficulty gives, the solve is in the ledger afterwards, and when
\* its row is new (difficulty null if the lookup failed) its announcement is
\* pushed in the same step; and after an announcement the next new solve is
\* looked up.
C30_BestEffortLookupsNeverSuppress ==
    [][\A c \in Cycles :
          /\ (cyc[c].pc = "profile" /\ cyc'[c] # cyc[c]) =>
                LET user == CurrentUser(c)
                IN  /\ cyc'[c].pc = "channel"
                    /\ cyc'[c].newSolves = cyc[c].newSolves
                    /\ cyc'[c].newSolves # <<>>
                    /\ cyc'[c].k = cyc[c].k /\ cyc'[c].e = cyc[c].e
                    /\ <<user.guild_id, cyc[c].logChannelId>> \in looked'
                    /\ ~cyc'[c].profile.found => users' = users
          /\ (cyc[c].pc = "channel" /\ cyc'[c].pc = "difficulty") =>
                /\ cyc'[c].j = 1
                /\ cyc'[c].newSolves = cyc[c].newSolves
          /\ (cyc[c].pc = "difficulty" /\ cyc'[c] # cyc[c]) =>
                LET user == CurrentUser(c)
                    solve == cyc[c].newSolves[cyc[c].j]
                    same(r) == /\ r.discord_id = user.discord_id
                               /\ r.guild_id = user.guild_id
                               /\ r.problem_slug = solve.titleSlug
                IN  /\ \E r \in solved_problems' : same(r)
                    /\ (~\E r \in solved_problems : same(r)) =>
                          /\ \E r \in solved_problems' \ solved_problems :
                                /\ same(r)
                                /\ r.solved_at = ParseInt(solve.timestamp)
                                /\ r.difficulty \in {NULL, Difficulty(solve.titleSlug)}
                          /\ sink' = Append(sink, VictoryMessage(cyc[c].logChannelId, user, solve))
                          /\ cyc'[c].pc = "send"
          /\ (cyc[c].pc = "send" /\ cyc'[c].pc = "difficulty") =>
                /\ cyc'[c].j = cyc[c].j + 1
                /\ cyc'[c].newSolves = cyc[c].newSolves
      ]_vars

\* A call has announced its second new solve although its profile lookup gave
\* nothing and a difficulty lookup failed: both solves are in the ledger, one
\* without difficulty, both have a victory message, and the stored row has the
\* new watermark with the cached stats it had when loaded.
C30_Witness ==
    \E c \in Cycles :
        /\ cyc[c].pc = "send"
        /\ cyc[c].j = 2
        /\ ~cyc[c].profile.found
        /\ LET user == CurrentUser(c)
               mine(r) == r.discord_id = user.discord_id /\ r.guild_id = user.guild_id
           IN  /\ \A j \in 1..2 :
                     /\ \E r \in solved_problems :
                           /\ mine(r)
                           /\ r.problem_slug = cyc[c].newSolves[j].titleSlug
                           /\ r.solved_at = ParseInt(cyc[c].newSolves[j].timestamp)
                     /\ \E n \in 1..Len(sink) :
                           /\ sink[n].kind = "victory"
                           /\ mine(sink[n])
                           /\ sink[n].slug = cyc[c].newSolves[j].titleSlug
               /\ \E r \in solved_problems :
                     /\ mine(r)
                     /\ r.difficulty = NULL
                     /\ r.solved_at = ParseInt(cyc[c].newSolves[1].timestamp)
               /\ HasUser(users, user.discord_id, user.guild_id)
               /\ LET row == getUser(users, user.discord_id, user.guild_id)
                  IN  /\ row.total_solved = user.total_solved
                      /\ row.current_streak = user.current_streak
                      /\ row.last_submission_timestamp > user.last_submission_timestamp

\* C31: in a cycle, every fetch after the first is issued by the step that ends
\* the sleep, whether the fetch before it resolved or failed; and the sleep
\* starts only when the last account of the username has been processed.
C31_DelayBetweenFetches ==
    [][\A c \in Cycles :
          /\ (cyc[c].fetched # <<>> /\ Len(cyc'[c].fetched) > Len(cyc[c].fetched)) =>
                cyc[c].pc = "sleep"
          /\ (cyc[c].pc \notin {"idle", "sleep"} /\ cyc'[c].pc = "sleep") =>
                LET entries == cyc[c].byUser[cyc[c].k].entries
                IN  IF calls' = <<>> THEN cyc[c].e = Len(entries)
                    ELSE calls'[Len(calls')].user = entries[Len(entries)]
      ]_vars

\* C32: in every step of a cycle, the calls of processUserSubmissions are made
\* for consecutive accounts of the current username, in the order of the list,
\* each with the one batch fetched for that username; a call that suspends is
\* the last of its step and the cycle waits for it; while an account is being
\* announced the cycle stays with its username and issues no fetch; and the
\* sleep, after which the next fetch is issued, starts only when the last
\* account of the username has been processed.
C32_OneAccountAtATime ==
    [][\A c \in Cycles :
          (cyc[c].pc # "idle" /\ cyc'[c] # cyc[c]) =>
             LET C == cyc[c]
                 announcing == C.pc \in {"profile", "channel", "difficulty", "send"}
                 entries == C.byUser[C.k].entries
                 first == IF C.pc = "fetch" THEN 0 ELSE C.e
                 batch == IF C.pc = "fetch"
                          THEN recentSubmissionList(ext, C.byUser[C.k].username, FetchLimit)
                          ELSE C.submissions
                 n == Len(calls')
             IN  /\ C.pc \in {"fetch", "profile", "channel", "difficulty", "send"} =>
                       /\ first + n <= Len(entries)
                       /\ \A i \in 1..n :
                             /\ calls'[i].user = entries[first + i]
                             /\ calls'[i].submissions = batch
                             /\ calls'[i].awaits => i = n
                       /\ (n > 0 /\ calls'[n].awaits) =>
                             /\ cyc'[c].pc = "profile"
                             /\ cyc'[c].e = first + n
                             /\ cyc'[c].submissions = batch
                       /\ (cyc'[c].pc = "sleep") => first + n = Len(entries)
                 /\ C.pc = "sleep" => n = 0
                 /\ announcing =>
                       /\ cyc'[c].pc \in {"profile", "channel", "difficulty", "send", "sleep"}
                       /\ cyc'[c].k = C.k
                       /\ cyc'[c].fetched = C.fetched
                       /\ n = 0 => (cyc'[c].e = C.e \/ cyc'[c].pc = "sleep")
                       /\ cyc'[c].pc \in {"channel", "difficulty", "send"} =>
                             /\ cyc'[c].e = C.e
                             /\ cyc'[c].submissions = C.submissions
                 /\ Len(cyc'[c].fetched) > Len(C.fetched) => C.pc \in {"sleep", "fetch"}
      ]_vars

\* A cycle has issued the fetch of its second username after both accounts of
\* its first username were announced.
C32_Witness ==
    \E c \in Cycles :
        /\ cyc[c].pc = "fetch"
        /\ cyc[c].k = 2
        /\ Len(cyc[c].byUser[1].entries) = 2
        /\ \A e \in 1..2 :
              \E n \in 1..Len(sink) :
                 /\ sink[n].kind = "victory"
                 /\ sink[n].discord_id = cyc[c].byUser[1].entries[e].discord_id
                 /\ sink[n].guild_id = cyc[c].byUser[1].entries[e].guild_id
                 /\ sink[n].username = cyc[c].byUser[1].username

\* C33: when the send of an announcement settles, resolved or failed, and the
\* call has further new solves, the call goes on with the next of them (its
\* difficulty lookup, then its save and its announcement).
C33_SendFailureKeepsTheOtherSolves ==
    [][\A c \in Cycles :
          (/\ cyc[c].pc = "send"
           /\ cyc'[c] # cyc[c]
           /\ cyc[c].j < Len(cyc[c].newSolves)) =>
             /\ cyc'[c].pc = "difficulty"
             /\ cyc'[c].j = cyc[c].j + 1
             /\ cyc'[c].newSolves = cyc[c].newSolves
             /\ cyc'[c].e = cyc[c].e
      ]_vars

C35_NothingAfterUntrack ==
    [][/\ \A r \in solved_problems' \ solved_problems :
            HasUser(users, r.discord_id, r.guild_id)
       /\ \A n \in (Len(sink) + 1)..Len(sink') :
            sink'[n].kind = "victory" =>
               HasUser(users, sink'[n].discord_id, sink'[n].guild_id)
      ]_vars

\* C36: when a cycle writes the watermark or the stats of a row, inserts a
\* ledger row or pushes a victory message for a (member, guild) that has a row
\* in users, the batch it works from was fetched for the username that the row
\* holds at that moment.
C36_WritesFollowTheLinkedUsername ==
    [][\A c \in Cycles :
          cyc'[c] # cyc[c] =>
             LET linked(user) ==
                    HasUser(users, user.discord_id, user.guild_id) =>
                       getUser(users, user.discord_id, user.guild_id).leetcode_username
                          = user.leetcode_username
                 written(user) ==
                    /\ HasUser(users, user.discord_id, user.guild_id)
                    /\ HasUser(users', user.discord_id, user.guild_id)
                    /\ getUser(users', user.discord_id, user.guild_id)
                          # getUser(users, user.discord_id, user.guild_id)
             IN  /\ \A i \in 1..Len(calls') :
                       written(calls'[i].user) => linked(calls'[i].user)
                 /\ (cyc[c].pc = "profile" /\ written(CurrentUser(c))) => linked(CurrentUser(c))
                 /\ (/\ cyc[c].pc = "difficulty"
                     /\ (solved_problems' # solved_problems \/ sink' # sink)) =>
                       linked(CurrentUser(c))
      ]_vars

\* C37: a tick that starts a job sets the latch of the job to the date of the
\* tick, a latch that is set is never cleared, and a job that has been started
\* on a calendar day of the local time zone, whatever became of that run, is
\* not started again by a later tick of that day.
C37_NoSecondStartInTheDay ==
    [][clock' = clock + TickPeriod =>
          LET date == LocalDate(clock', sched.offset)
          IN  /\ sched.lastRecapDate # NoDate => sched'.lastRecapDate # NoDate
              /\ sched.lastNudgeDate # NoDate => sched'.lastNudgeDate # NoDate
              /\ Len(sched'.recaps) > Len(sched.recaps) =>
                    /\ sched'.lastRecapDate = ISODate(clock')
                    /\ \A i \in 1..Len(sched.recaps) : sched.recaps[i] # date
              /\ Len(sched'.nudges) > Len(sched.nudges) =>
                    /\ sched'.lastNudgeDate = ISODate(clock')
                    /\ \A i \in 1..Len(sched.nudges) : sched.nudges[i] # date
      ]_vars

\* C38: while the send of an announcement is pending, and so when it fails,
\* the solve has its ledger row, and the stored watermark of an account is
\* never below the time of a solve in its ledger rows; a call takes as new
\* only submissions above the watermark of its row, so no later cycle takes
\* that solve; and a victory message is pushed only for a (member, guild, slug)
\* that had no ledger row and no message before: the solve is never announced
\* again.
C38_FailedDeliveryIsNeverRetried ==
    [][/\ \A r \in solved_problems' :
            HasUser(users', r.discord_id, r.guild_id) =>
               getUser(users', r.discord_id, r.guild_id).last_submission_timestamp
                  >= r.solved_at
       /\ \A c \in Cycles :
            cyc'[c] # cyc[c] =>
               /\ cyc[c].pc = "send" =>
                     LET user == CurrentUser(c)
                         solve == cyc[c].newSolves[cyc[c].j]
                     IN  /\ \E r \in solved_problems :
                               /\ r.discord_id = user.discord_id
                               /\ r.guild_id = user.guild_id
                               /\ r.problem_slug = solve.titleSlug
                               /\ r.solved_at = ParseInt(solve.timestamp)
                         /\ solved_problems' = solved_problems
                         /\ sink' = sink
               /\ (cyc'[c].pc = "profile" /\ calls' # <<>>) =>
                     \A j \in 1..Len(cyc'[c].newSolves) :
                        ParseInt(cyc'[c].newSolves[j].timestamp)
                           > calls'[Len(calls')].user.last_submission_timestamp
               /\ \A n \in (Len(sink) + 1)..Len(sink') :
                     sink'[n].kind = "victory" =>
                        /\ ~\E r \in solved_problems :
                               /\ r.discord_id = sink'[n].discord_id
                               /\ r.guild_id = sink'[n].guild_id
                               /\ r.problem_slug = sink'[n].slug
                        /\ ~\E m \in 1..Len(sink) :
                               /\ sink[m].kind = "victory"
                               /\ sink[m].discord_id = sink'[n].discord_id
                               /\ sink[m].guild_id = sink'[n].guild_id
                               /\ sink[m].slug = sink'[n].slug
      ]_vars

\* The first cycle is over: it pushed the message of the newest solve of the
\* first account, and its send failed (the other new solve of the batch has
\* no ledger row).  The second cycle has fetched the username and all its
\* calls have returned: there is still one message for the solve.
C38_Witness ==
    /\ cyc[1].pc = "done"
    /\ cyc[2].pc = "sleep"
    /\ cyc[2].k = 1
    /\ calls # <<>>
    /\ LET user == TrackedAtStartup[1]
           mine(r) == r.discord_id = user.discord_id /\ r.guild_id = user.guild_id
           batch == calls[1].submissions
       IN  /\ mine(calls[1].user)
           /\ calls[1].awaits = FALSE
           /\ Len(batch) = 2
           /\ \E r \in solved_problems :
                 /\ mine(r)
                 /\ r.problem_slug = batch[1].titleSlug
                 /\ r.solved_at = ParseInt(batch[1].timestamp)
           /\ ~\E r \in solved_problems : mine(r) /\ r.problem_slug = batch[2].titleSlug
           /\ Cardinality({n \in 1..Len(sink) :
                              mine(sink[n]) /\ sink[n].slug = batch[1].titleSlug}) = 1
           /\ getUser(users, user.discord_id, user.guild_id).last_submission_timestamp
                 = ParseInt(batch[1].timestamp)

====
